---- MODULE Spec2Model ----
(***************************************************************************)
(* Model of the datetime parser agent's resolver                           *)
(* (src/app/utils/datetime.py), of the datetime_parser tool                *)
(* (src/app/server_mcp.py) and of the agent executor                       *)
(* (src/app/server_executor.py, src/app/server_agent.py).                  *)
(*                                                                         *)
(* Encoding.  A Python Optional[T] is a sequence of length 0 (None) or 1   *)
(* (the value).  A Python str that the code formats or parses is a         *)
(* sequence of one-character strings.  A call outcome is a record          *)
(* [exc, ret]: exc names the exception raised ("" when the call returned)  *)
(* and ret is the optional returned value.                                 *)
(***************************************************************************)
EXTENDS Integers, Sequences, FiniteSets, TLC

VARIABLES pc, arguments, start_elements, end_elements, payload,
          current_date_str, result,
          exec_pc, task, chunks, function_calls, event_queue

vars == <<pc, arguments, start_elements, end_elements, payload,
          current_date_str, result,
          exec_pc, task, chunks, function_calls, event_queue>>

\* The state of a request to the resolver or to the tool, and the state of
\* a run of the agent executor.
requestVars == <<pc, arguments, start_elements, end_elements, payload,
                 current_date_str, result>>

executorVars == <<exec_pc, task, chunks, function_calls, event_queue>>

None == << >>

Some(x) == <<x>>

Val(o) == o[1]

\* The element of a singleton set.  A value that a definition uses several
\* times is bound once as  The({ body : x \in {value} }).
The(S) == CHOOSE x \in S : TRUE

(***************************************************************************)
(* The date library: datetime, timedelta, strftime, fromisoformat.         *)
(***************************************************************************)

IsLeap(y) == (y % 4 = 0) /\ ((y % 100 # 0) \/ (y % 400 = 0))

DaysInMonth(y, m) ==
    IF m = 2 THEN (IF IsLeap(y) THEN 29 ELSE 28)
    ELSE IF m \in {4, 6, 9, 11} THEN 30 ELSE 31

DaysBeforeYear(y) ==
    (y - 1) * 365 + ((y - 1) \div 4) - ((y - 1) \div 100) + ((y - 1) \div 400)

DaysBeforeMonth(y, m) ==
    <<0, 31, 59, 90, 120, 151, 181, 212, 243, 273, 304, 334>>[m]
    + (IF m > 2 /\ IsLeap(y) THEN 1 ELSE 0)

ToOrdinal(y, m, d) == DaysBeforeYear(y) + DaysBeforeMonth(y, m) + d

\* The raised-exception value of a datetime computation.
ErrDT == [ok |-> FALSE, year |-> 0, month |-> 0, day |-> 0,
          hour |-> 0, minute |-> 0, second |-> 0, microsecond |-> 0]

ValidFields(v) ==
    /\ v.year >= 1 /\ v.year <= 9999
    /\ v.month >= 1 /\ v.month <= 12
    /\ v.day >= 1 /\ v.day <= DaysInMonth(v.year, v.month)
    /\ v.hour >= 0 /\ v.hour <= 23
    /\ v.minute >= 0 /\ v.minute <= 59
    /\ v.second >= 0 /\ v.second <= 59
    /\ v.microsecond >= 0 /\ v.microsecond <= 999999

\* datetime(y, mo, d, h, mi, s, us): raises ValueError on a field out of range.
MkDT(y, mo, d, h, mi, s, us) ==
    The({IF ValidFields(v) THEN v ELSE ErrDT :
            v \in {[ok |-> TRUE, year |-> y, month |-> mo, day |-> d,
                    hour |-> h, minute |-> mi, second |-> s, microsecond |-> us]}})

\* dt.replace(**f): f is a record of the fields to overwrite.
Replace(dt, f) ==
    The({IF ~d.ok THEN ErrDT
         ELSE The({IF ValidFields(v) THEN v ELSE ErrDT :
                      v \in {[k \in DOMAIN d |-> IF k \in DOMAIN r THEN r[k] ELSE d[k]]}}) :
            d \in {dt}, r \in {f}})

\* The year of ordinal day n.
FromOrdinalYear(n) ==
    The({CHOOSE y \in (a - 8)..a : DaysBeforeYear(y) < n /\ n <= DaysBeforeYear(y + 1) :
            a \in {((n - 1) \div 365) + 1}})

\* The month of the r-th day of year y.
FromOrdinalMonth(y, r) ==
    CHOOSE m \in 1..12 :
        DaysBeforeMonth(y, m) < r /\ r <= DaysBeforeMonth(y, m) + DaysInMonth(y, m)

\* date.fromordinal(n) with the second of the day sod.
FromOrdinal(n, sod, us) ==
    IF n < 1 \/ n > DaysBeforeYear(10000) THEN ErrDT
    ELSE The({The({MkDT(y, m, n - DaysBeforeYear(y) - DaysBeforeMonth(y, m),
                        sod \div 3600, (sod % 3600) \div 60, sod % 60, us) :
                      m \in {FromOrdinalMonth(y, n - DaysBeforeYear(y))}}) :
                 y \in {FromOrdinalYear(n)}})

\* AddTimedelta as an overwrite of the day, hour and minute fields.
AddTimedelta_FieldOverwrite(dt, days, hours, minutes) ==
    The({IF ~d.ok THEN ErrDT
         ELSE Replace(d, [day |-> d.day + days, hour |-> d.hour + hours,
                          minute |-> d.minute + minutes]) :
            d \in {dt}})

\* dt + timedelta(days, hours, minutes): the timedelta is normalised to
\* days and seconds and added to the ordinal day and the second of the day.
AddTimedelta(dt, days, hours, minutes) ==
    The({IF ~d.ok THEN ErrDT
         ELSE The({FromOrdinal(ToOrdinal(d.year, d.month, d.day) + days + (secs \div 86400),
                               secs % 86400, d.microsecond) :
                      secs \in {d.hour * 3600 + d.minute * 60 + d.second
                                + hours * 3600 + minutes * 60}}) :
            d \in {dt}})

Digit(n) == <<"0", "1", "2", "3", "4", "5", "6", "7", "8", "9">>[n + 1]

DigitVal(c) == CHOOSE n \in 0..9 : Digit(n) = c

Pad2(n) == <<Digit((n \div 10) % 10), Digit(n % 10)>>

Pad4(n) == <<Digit((n \div 1000) % 10), Digit((n \div 100) % 10)>> \o Pad2(n)

\* Strftime with the format '%Y-%d-%mT%H:%M:%S'.
Strftime_DayFirst(dt) ==
    The({Pad4(d.year) \o <<"-">> \o Pad2(d.day) \o <<"-">> \o Pad2(d.month)
         \o <<"T">> \o Pad2(d.hour) \o <<":">> \o Pad2(d.minute) \o <<":">>
         \o Pad2(d.second) : d \in {dt}})

\* dt.strftime('%Y-%m-%dT%H:%M:%S')
Strftime(dt) ==
    The({Pad4(d.year) \o <<"-">> \o Pad2(d.month) \o <<"-">> \o Pad2(d.day)
         \o <<"T">> \o Pad2(d.hour) \o <<":">> \o Pad2(d.minute) \o <<":">>
         \o Pad2(d.second) : d \in {dt}})

Num2(s, i) == DigitVal(s[i]) * 10 + DigitVal(s[i + 1])

Num4(s, i) == Num2(s, i) * 100 + Num2(s, i + 2)

\* datetime.fromisoformat(s.replace('Z', '+00:00')): the calendar fields are
\* read at their positions; an optional fraction gives the microsecond and the
\* UTC offset does not change the fields.
FromIsoFormat(str) ==
    The({MkDT(Num4(s, 1), Num2(s, 6), Num2(s, 9), Num2(s, 12), Num2(s, 15),
              Num2(s, 18),
              IF Len(s) >= 26 /\ s[20] = "."
              THEN Num2(s, 21) * 10000 + Num2(s, 23) * 100 + Num2(s, 25)
              ELSE 0) : s \in {str}})

(***************************************************************************)
(* src/app/utils/datetime.py                                               *)
(***************************************************************************)

\* AbsoluteTime() and RelativeTime(): every field None.
AbsoluteTime == [year |-> None, month |-> None, day |-> None,
                 hour |-> None, minute |-> None]

RelativeTime == [year |-> None, month |-> None, day |-> None,
                 hour |-> None, minute |-> None]

\* ComputedDateTime(now=True) and ComputedDateTime(datetime=...)
ComputedNow == [now |-> Some(TRUE), datetime |-> None]

ComputedAt(dt) == [now |-> None, datetime |-> Some(Strftime(dt))]

\* Truthiness of Optional[bool]: None and False are falsy.
Truthy(b) == b # None /\ Val(b)

\* MonthShift with a quotient and remainder that truncate toward zero.
MonthShift_Truncating(dt, k) ==
    The({IF ~d.ok THEN ErrDT
         ELSE The({Replace(d, [year  |-> d.year + (IF idx >= 0 THEN idx \div 12
                                                   ELSE -((-idx) \div 12)),
                               month |-> (IF idx >= 0 THEN idx % 12
                                          ELSE -((-idx) % 12)) + 1]) :
                      idx \in {d.month + k - 1}}) :
            d \in {dt}})

\* The relative month shift: the month index carries into the year.
MonthShift(dt, k) ==
    The({IF ~d.ok THEN ErrDT
         ELSE The({Replace(d, [year  |-> d.year + ((new_month - 1) \div 12),
                               month |-> ((new_month - 1) % 12) + 1]) :
                      new_month \in {d.month + k}}) :
            d \in {dt}})

\* dt.replace(year=dt.year + rel.year)
YearShift(dt, k) ==
    The({IF ~d.ok THEN ErrDT ELSE Replace(d, [year |-> d.year + k]) : d \in {dt}})

\* "Apply relative shifts": year, month, then day, hour, minute.
RelativeShifts(dt0, relative) ==
    IF relative = None THEN dt0
    ELSE The({The({The({The({The({
            IF rel.minute # None THEN AddTimedelta(d4, 0, 0, Val(rel.minute)) ELSE d4 :
            d4 \in {IF rel.hour # None THEN AddTimedelta(d3, 0, Val(rel.hour), 0) ELSE d3}}) :
            d3 \in {IF rel.day # None THEN AddTimedelta(d2, Val(rel.day), 0, 0) ELSE d2}}) :
            d2 \in {IF rel.month # None THEN MonthShift(d1, Val(rel.month)) ELSE d1}}) :
            d1 \in {IF rel.year # None THEN YearShift(dt0, Val(rel.year)) ELSE dt0}}) :
            rel \in {Val(relative)}})

\* The time-of-day override writing only the fields that are given: the
\* minute and the second are kept when only the hour is given.
TimeOverride_GivenFieldsOnly(dt, abs_time) ==
    The({IF abs_time.minute # None THEN Replace(d, [minute |-> Val(abs_time.minute)]) ELSE d :
            d \in {IF abs_time.hour # None
                   THEN Replace(dt, [hour |-> Val(abs_time.hour)]) ELSE dt}})

\* hour and minute are overwritten together when either is given.
TimeOverride(dt, abs_time) ==
    IF abs_time.hour # None \/ abs_time.minute # None
    THEN LET h == IF abs_time.hour # None THEN Val(abs_time.hour) ELSE dt.hour
             m == IF abs_time.minute # None THEN Val(abs_time.minute)
                  ELSE IF abs_time.hour # None THEN 0 ELSE dt.minute
         IN Replace(dt, [hour |-> h, minute |-> m, second |-> 0, microsecond |-> 0])
    ELSE dt

\* replace() that leaves dt as it is when the new fields are out of range.
ReplaceIfValid(dt, f) ==
    The({IF r.ok THEN r ELSE dt : r \in {Replace(dt, f)}})

\* The absolute overrides with the fields validated beforehand: a value the
\* calendar does not have is dropped.
AbsoluteOverrides_Prevalidated(dt0, absolute) ==
    IF absolute = None THEN dt0
    ELSE The({The({The({The({
            The({IF t.ok THEN t ELSE d3 : t \in {TimeOverride(d3, abs_time)}}) :
            d3 \in {IF abs_time.day # None
                    THEN ReplaceIfValid(d2, [day |-> Val(abs_time.day)]) ELSE d2}}) :
            d2 \in {IF abs_time.month # None
                    THEN ReplaceIfValid(d1, [month |-> Val(abs_time.month)]) ELSE d1}}) :
            d1 \in {IF abs_time.year # None
                    THEN ReplaceIfValid(dt0, [year |-> Val(abs_time.year)]) ELSE dt0}}) :
            abs_time \in {Val(absolute)}})

\* "Apply absolute overrides": year, month, day one replace() at a time, then
\* hour and minute together.
AbsoluteOverrides(dt0, absolute) ==
    IF absolute = None THEN dt0
    ELSE The({The({The({The({
            TimeOverride(d3, abs_time) :
            d3 \in {IF abs_time.day # None
                    THEN Replace(d2, [day |-> Val(abs_time.day)]) ELSE d2}}) :
            d2 \in {IF abs_time.month # None
                    THEN Replace(d1, [month |-> Val(abs_time.month)]) ELSE d1}}) :
            d1 \in {IF abs_time.year # None
                    THEN Replace(dt0, [year |-> Val(abs_time.year)]) ELSE dt0}}) :
            abs_time \in {Val(absolute)}})

\* The outcome of a function returning a ComputedDateTime.
Raised(e) == [exc |-> e, ret |-> None]

Returned(v) == [exc |-> "", ret |-> Some(v)]

ReturnDT(dt) ==
    The({IF d.ok THEN Returned(ComputedAt(d)) ELSE Raised("ValueError") : d \in {dt}})

\* datetime(current.year, ..., current.second): the microsecond is dropped.
Truncated(current) ==
    MkDT(current.year, current.month, current.day,
         current.hour, current.minute, current.second, 0)

\* t.absolute or AbsoluteTime(), t.relative or RelativeTime()
AbsOf(t) == IF t.absolute # None THEN Val(t.absolute) ELSE AbsoluteTime

RelOf(t) == IF t.relative # None THEN Val(t.relative) ELSE RelativeTime

StartOfDay == [hour |-> 0, minute |-> 0, second |-> 0, microsecond |-> 0]

EndOfDay == [hour |-> 23, minute |-> 59, second |-> 59, microsecond |-> 999000]

\* compute_date_time with the now flag looked at after the arithmetic.
compute_date_time_NowLast(time_obj, current) ==
    The({IF r.exc # "" THEN r
         ELSE IF Truthy(time_obj.now) THEN Returned(ComputedNow) ELSE r :
            r \in {ReturnDT(AbsoluteOverrides(RelativeShifts(Truncated(current),
                                                            time_obj.relative),
                                              time_obj.absolute))}})

\* compute_date_time that expands a spec without hour and minute to the start
\* of its day, as a range start is expanded.
compute_date_time_Expanding(time_obj, current) ==
    IF Truthy(time_obj.now) THEN Returned(ComputedNow)
    ELSE The({ReturnDT(IF AbsOf(time_obj).hour = None /\ AbsOf(time_obj).minute = None
                          /\ RelOf(time_obj).hour = None /\ RelOf(time_obj).minute = None
                       THEN Replace(d, StartOfDay) ELSE d) :
                 d \in {AbsoluteOverrides(RelativeShifts(Truncated(current),
                                                        time_obj.relative),
                                          time_obj.absolute)}})

\* compute_date_time with the absolute overrides applied before the shifts.
compute_date_time_AbsoluteFirst(time_obj, current) ==
    IF Truthy(time_obj.now) THEN Returned(ComputedNow)
    ELSE ReturnDT(RelativeShifts(AbsoluteOverrides(Truncated(current),
                                                  time_obj.absolute),
                                 time_obj.relative))

compute_date_time(time_obj, current) ==
    IF Truthy(time_obj.now) THEN Returned(ComputedNow)
    ELSE ReturnDT(AbsoluteOverrides(RelativeShifts(Truncated(current),
                                                  time_obj.relative),
                                    time_obj.absolute))

AnySet(r) ==
    \/ r.year # None \/ r.month # None \/ r.day # None
    \/ r.hour # None \/ r.minute # None

\* is_empty_time_object looking only at which components are present: an
\* absolute or relative object with every field unset counts as data.
is_empty_time_object_PresenceOnly(time_opt) ==
    IF time_opt = None THEN TRUE
    ELSE IF Truthy(Val(time_opt).now) THEN FALSE
    ELSE Val(time_opt).absolute = None /\ Val(time_opt).relative = None

is_empty_time_object(time_opt) ==
    IF time_opt = None THEN TRUE
    ELSE IF Truthy(Val(time_opt).now) THEN FALSE
    ELSE IF Val(time_opt).absolute # None /\ AnySet(Val(Val(time_opt).absolute)) THEN FALSE
    ELSE IF Val(time_opt).relative # None /\ AnySet(Val(Val(time_opt).relative)) THEN FALSE
    ELSE TRUE

\* has_time_units looking only at the absolute component.
has_time_units_AbsoluteOnly(t) ==
    IF t = None THEN FALSE
    ELSE AbsOf(Val(t)).hour # None \/ AbsOf(Val(t)).minute # None

has_time_units(t) ==
    IF t = None THEN FALSE
    ELSE \/ AbsOf(Val(t)).hour # None \/ AbsOf(Val(t)).minute # None
         \/ RelOf(Val(t)).hour # None \/ RelOf(Val(t)).minute # None

\* The last day of base_end's month: the first of the next month minus a day.
LastDay(base_end) ==
    IF base_end.month = 12
    THEN AddTimedelta(MkDT(base_end.year + 1, 1, 1, 0, 0, 0, 0), -1, 0, 0)
    ELSE AddTimedelta(MkDT(base_end.year, base_end.month + 1, 1, 0, 0, 0, 0), -1, 0, 0)

\* OnlyRelativeDayZero without the special case.
OnlyRelativeDayZero_Never(abs_time, rel_time) == FALSE

\* The "current moment" special case: only relative.day = 0 was mentioned.
OnlyRelativeDayZero(abs_time, rel_time) ==
    /\ rel_time.day # None /\ Val(rel_time.day) = 0
    /\ abs_time.day = None
    /\ rel_time.month = None /\ rel_time.year = None
    /\ abs_time.month = None /\ abs_time.year = None

\* Span expansion that leaves an endpoint naming a day at the computed
\* instant instead of the boundaries of its day.
Expanded_DayUnexpanded(base, abs_time, rel_time) ==
    LET has_day   == abs_time.day # None \/ rel_time.day # None
        has_month == abs_time.month # None \/ rel_time.month # None
        has_year  == abs_time.year # None \/ rel_time.year # None
    IN IF has_day
       THEN <<base, base>>
       ELSE IF has_month
       THEN <<Replace(base, [day |-> 1] @@ StartOfDay),
              IF base.ok
              THEN Replace(base, [day |-> LastDay(base).day] @@ EndOfDay)
              ELSE ErrDT>>
       ELSE IF has_year
       THEN <<Replace(base, [month |-> 1, day |-> 1] @@ StartOfDay),
              Replace(base, [month |-> 12, day |-> 31] @@ EndOfDay)>>
       ELSE <<Replace(base, StartOfDay), Replace(base, EndOfDay)>>

\* The pair <<base_start, base_end>> after span expansion; both are the
\* shifted and overridden instant before it.
Expanded(base, abs_time, rel_time) ==
    LET has_day   == abs_time.day # None \/ rel_time.day # None
        has_month == abs_time.month # None \/ rel_time.month # None
        has_year  == abs_time.year # None \/ rel_time.year # None
    IN IF has_day /\ ~has_month /\ ~has_year /\ OnlyRelativeDayZero(abs_time, rel_time)
       THEN <<base, base>>
       ELSE IF has_day
       THEN <<Replace(base, StartOfDay), Replace(base, EndOfDay)>>
       ELSE IF has_month
       THEN <<Replace(base, [day |-> 1] @@ StartOfDay),
              IF base.ok
              THEN Replace(base, [day |-> LastDay(base).day] @@ EndOfDay)
              ELSE ErrDT>>
       ELSE IF has_year
       THEN <<Replace(base, [month |-> 1, day |-> 1] @@ StartOfDay),
              Replace(base, [month |-> 12, day |-> 31] @@ EndOfDay)>>
       ELSE <<Replace(base, StartOfDay), Replace(base, EndOfDay)>>

build_expanded_endpoint(t_obj, is_start, current) ==
    IF t_obj # None /\ Truthy(Val(t_obj).now) THEN Returned(ComputedNow)
    ELSE IF t_obj = None
    THEN ReturnDT(IF is_start THEN Replace(Truncated(current), StartOfDay)
                  ELSE Replace(Truncated(current), EndOfDay))
    ELSE The({The({IF ~both[1].ok \/ ~both[2].ok THEN Raised("ValueError")
                   ELSE ReturnDT(IF is_start THEN both[1] ELSE both[2]) :
                      both \in {Expanded(base, AbsOf(Val(t_obj)), RelOf(Val(t_obj)))}}) :
                 base \in {AbsoluteOverrides(
                              RelativeShifts(Truncated(current), Val(t_obj).relative),
                              Val(t_obj).absolute)}})

\* TimeInputPayload without validate_exclusive_fields.
TimeInputPayload_Unvalidated(time_single, time_range) ==
    [exc |-> "", ret |-> Some([time_single |-> time_single,
                               time_range  |-> time_range])]

\* TimeInputPayload(time_single=..., time_range=...) with its model validator.
TimeInputPayload(time_single, time_range) ==
    IF time_single # None /\ time_range # None
    THEN [exc |-> "ValidationError", ret |-> None]
    ELSE [exc |-> "", ret |-> Some([time_single |-> time_single,
                                    time_range  |-> time_range])]

TimeConvertedPayload(parsable, reason, time_single, time_range) ==
    [parsable |-> parsable, reason |-> reason,
     time_single |-> time_single, time_range |-> time_range]

ReasonNoInput == "No datetime information provided in the input"

ReasonEmptySingle == "time_single is empty or contains no datetime data"

ReasonEmptyRange == "Both start_date and end_date are empty or contain no datetime data"

\* The single-point branch of convert_datetime_payload.
ConvertSingle(time_single, current) ==
    IF is_empty_time_object(Some(time_single))
    THEN Returned(TimeConvertedPayload(FALSE, Some(ReasonEmptySingle), None, None))
    ELSE The({IF r.exc # "" THEN Raised(r.exc)
              ELSE Returned(TimeConvertedPayload(TRUE, None, r.ret, None)) :
                 r \in {compute_date_time(time_single, current)}})

\* One endpoint of the range branch of convert_datetime_payload.
ConvertEndpoint(t, is_start, current) ==
    IF has_time_units(Some(t)) THEN compute_date_time(t, current)
    ELSE build_expanded_endpoint(Some(t), is_start, current)

\* The range branch rejecting a range as soon as one endpoint is empty.
ConvertRange_RejectOneEmpty(tr, current) ==
    LET parsable == ~(is_empty_time_object(Some(tr.start_date))
                      \/ is_empty_time_object(Some(tr.end_date)))
        reason   == IF parsable THEN None ELSE Some(ReasonEmptyRange)
    IN The({IF start_computed.exc # "" THEN Raised(start_computed.exc)
            ELSE The({IF end_computed.exc # "" THEN Raised(end_computed.exc)
                      ELSE Returned(TimeConvertedPayload(parsable, reason, None,
                               Some([start_date |-> Val(start_computed.ret),
                                     end_date   |-> Val(end_computed.ret)]))) :
                         end_computed \in {ConvertEndpoint(tr.end_date, FALSE, current)}}) :
               start_computed \in {ConvertEndpoint(tr.start_date, TRUE, current)}})

\* The range branch without the check of the two endpoints for emptiness.
ConvertRange_NeverRejects(tr, current) ==
    The({IF start_computed.exc # "" THEN Raised(start_computed.exc)
         ELSE The({IF end_computed.exc # "" THEN Raised(end_computed.exc)
                   ELSE Returned(TimeConvertedPayload(TRUE, None, None,
                            Some([start_date |-> Val(start_computed.ret),
                                  end_date   |-> Val(end_computed.ret)]))) :
                      end_computed \in {ConvertEndpoint(tr.end_date, FALSE, current)}}) :
            start_computed \in {ConvertEndpoint(tr.start_date, TRUE, current)}})

\* The range branch of convert_datetime_payload.
ConvertRange(tr, current) ==
    LET parsable == ~(is_empty_time_object(Some(tr.start_date))
                      /\ is_empty_time_object(Some(tr.end_date)))
        reason   == IF parsable THEN None ELSE Some(ReasonEmptyRange)
    IN The({IF start_computed.exc # "" THEN Raised(start_computed.exc)
            ELSE The({IF end_computed.exc # "" THEN Raised(end_computed.exc)
                      ELSE Returned(TimeConvertedPayload(parsable, reason, None,
                               Some([start_date |-> Val(start_computed.ret),
                                     end_date   |-> Val(end_computed.ret)]))) :
                         end_computed \in {ConvertEndpoint(tr.end_date, FALSE, current)}}) :
               start_computed \in {ConvertEndpoint(tr.start_date, TRUE, current)}})

convert_datetime_payload(p, date_str) ==
    The({IF ~current.ok THEN Raised("ValueError")
         ELSE IF p.time_single = None /\ p.time_range = None
         THEN Returned(TimeConvertedPayload(FALSE, Some(ReasonNoInput), None, None))
         ELSE IF p.time_single # None
         THEN ConvertSingle(Val(p.time_single), current)
         ELSE ConvertRange(Val(p.time_range), current) :
            current \in {FromIsoFormat(date_str)}})

(***************************************************************************)
(* src/app/server_mcp.py: DatetimeParserTool.run                           *)
(***************************************************************************)

DATE_UNITS == {"year", "month", "day"}

WEEKDAY_MAP == {"sunday", "monday", "tuesday", "wednesday", "thursday",
                "friday", "saturday"}

\* elem.get("time_range", "start")
TagOf(elem) == IF elem.time_range = None THEN "start" ELSE Val(elem.time_range)

IsDateLevel(elem) == elem.offset_unit \in DATE_UNITS \/ elem.offset_unit \in WEEKDAY_MAP

_has_date_units(elements) == \E i \in 1..Len(elements) : IsDateLevel(elements[i])

PartitionStart(time_elements) == SelectSeq(time_elements, LAMBDA e : TagOf(e) # "end")

PartitionEnd(time_elements) == SelectSeq(time_elements, LAMBDA e : TagOf(e) = "end")

\* inherited = dict(e); inherited["time_range"] = "end"
Inherited(e) == [e EXCEPT !.time_range = Some("end")]

RECURSIVE InheritedFrom(_)
InheritedFrom(elements) ==
    IF elements = << >> THEN << >>
    ELSE (IF IsDateLevel(Head(elements)) THEN <<Inherited(Head(elements))>> ELSE << >>)
         \o InheritedFrom(Tail(elements))

RECURSIVE Retagged(_)
Retagged(elements) ==
    IF elements = << >> THEN << >>
    ELSE <<Inherited(Head(elements))>> \o Retagged(Tail(elements))

\* InheritDates copying every fragment of the start group, not only the
\* date-level ones.
InheritDates_CopyAll(start_group, end_group) ==
    IF end_group # << >> /\ ~_has_date_units(end_group)
    THEN end_group \o Retagged(start_group)
    ELSE end_group

\* InheritDates copying into a non-empty end group every date-level fragment
\* of the start group whose unit the end group lacks.
InheritDates_FillMissing(start_group, end_group) ==
    IF end_group # << >>
    THEN end_group \o
         InheritedFrom(SelectSeq(start_group,
             LAMBDA e : \A i \in 1..Len(end_group) : end_group[i].offset_unit # e.offset_unit))
    ELSE end_group

\* The end group after date inheritance.
InheritDates(start_group, end_group) ==
    IF end_group # << >> /\ ~_has_date_units(end_group)
    THEN end_group \o InheritedFrom(start_group)
    ELSE end_group

SpecFields == {"year", "month", "day", "hour", "minute"}

\* setattr(acc, unit, value) guarded by hasattr(acc, unit)
SetField(acc, unit, value) ==
    IF unit \in SpecFields THEN [acc EXCEPT ![unit] = Some(value)] ELSE acc

\* FoldElement resolving a weekday fragment as a relative day offset instead
\* of recording a WeekdayOffset.
FoldElement_WeekdayAsDay(acc, elem) ==
    IF elem.offset_unit \in WEEKDAY_MAP
    THEN [acc EXCEPT !.has_rel = TRUE,
                     !.rel_time = SetField(@, "day", elem.offset_value)]
    ELSE IF elem.mode = Some("absolute")
    THEN [acc EXCEPT !.has_abs = TRUE,
                     !.abs_time = SetField(@, elem.offset_unit, elem.offset_value)]
    ELSE IF elem.mode = Some("relative")
    THEN [acc EXCEPT !.has_rel = TRUE,
                     !.rel_time = SetField(@, elem.offset_unit, elem.offset_value)]
    ELSE acc

\* One iteration of the loop of build_components on the accumulator
\* [abs_time, rel_time, has_abs, has_rel, weekday_offset].
FoldElement(acc, elem) ==
    IF elem.offset_unit \in WEEKDAY_MAP
    THEN [acc EXCEPT !.weekday_offset =
                Some([name |-> elem.offset_unit, offset |-> elem.offset_value])]
    ELSE IF elem.mode = Some("absolute")
    THEN [acc EXCEPT !.has_abs = TRUE,
                     !.abs_time = SetField(@, elem.offset_unit, elem.offset_value)]
    ELSE IF elem.mode = Some("relative")
    THEN [acc EXCEPT !.has_rel = TRUE,
                     !.rel_time = SetField(@, elem.offset_unit, elem.offset_value)]
    ELSE acc

RECURSIVE FoldElements(_, _)
FoldElements(acc, elements) ==
    IF elements = << >> THEN acc
    ELSE The({FoldElements(next, Tail(elements)) :
                 next \in {FoldElement(acc, Head(elements))}})

\* build_components returning a component only when one of its fields was
\* set.
build_components_NoneWhenUnset(elements) ==
    The({<<IF acc.has_abs /\ acc.abs_time # AbsoluteTime THEN Some(acc.abs_time) ELSE None,
           IF acc.has_rel /\ acc.rel_time # RelativeTime THEN Some(acc.rel_time) ELSE None,
           acc.weekday_offset>> :
            acc \in {FoldElements([abs_time |-> AbsoluteTime, rel_time |-> RelativeTime,
                                   has_abs |-> FALSE, has_rel |-> FALSE,
                                   weekday_offset |-> None], elements)}})

\* build_components(elements): <<absolute, relative, weekday>>
build_components(elements) ==
    The({<<IF acc.has_abs THEN Some(acc.abs_time) ELSE None,
           IF acc.has_rel THEN Some(acc.rel_time) ELSE None,
           acc.weekday_offset>> :
            acc \in {FoldElements([abs_time |-> AbsoluteTime, rel_time |-> RelativeTime,
                                   has_abs |-> FALSE, has_rel |-> FALSE,
                                   weekday_offset |-> None], elements)}})

\* TimeSingle(...) and TimeRangeDate(...): the weekday keyword is not a field
\* of the model and is ignored.
TimeObject(components) ==
    The({[absolute |-> c[1], relative |-> c[2], now |-> None] : c \in {components}})

\* The payload run builds from the two groups.
BuildPayload(start_group, end_group) ==
    IF end_group # << >>
    THEN TimeInputPayload(None,
             Some([start_date |-> TimeObject(build_components(start_group)),
                   end_date   |-> TimeObject(build_components(end_group))]))
    ELSE IF start_group # << >>
    THEN TimeInputPayload(Some(TimeObject(build_components(start_group))), None)
    ELSE TimeInputPayload(None, None)

DefaultReason == "Could not parse datetime from input"

\* The early exit answering with the default reason whatever the caller gave.
NotParsable_DefaultReason(args) ==
    Returned(TimeConvertedPayload(FALSE, Some(DefaultReason), None, None))

\* The structured content of the early exit.
NotParsable(args) ==
    Returned(TimeConvertedPayload(FALSE,
                 Some(IF args.reasoning = None THEN DefaultReason ELSE Val(args.reasoning)),
                 None, None))

ShortCircuits(args) ==
    \/ ~Truthy(args.parsable)
    \/ args.time_elements = None
    \/ Val(args.time_elements) = << >>

\* The structured content run returns from a resolver result.
ResponseData(res) ==
    The({IF r.exc # "" THEN r
         ELSE Returned(TimeConvertedPayload(Val(r.ret).parsable, Val(r.ret).reason,
                  Val(r.ret).time_single,
                  IF Val(r.ret).time_single # None THEN None ELSE Val(r.ret).time_range)) :
            r \in {res}})

(***************************************************************************)
(* The state machine: a request either constructs a TimeInputPayload and   *)
(* hands it to convert_datetime_payload, or goes through the tool's run.   *)
(***************************************************************************)

NoResult == [exc |-> "", ret |-> None]

Init ==
    /\ pc = "idle"
    /\ arguments = None
    /\ start_elements = << >>
    /\ end_elements = << >>
    /\ payload = None
    /\ current_date_str = << >>
    /\ result = NoResult
    /\ exec_pc = "idle"
    /\ task = None
    /\ chunks = << >>
    /\ function_calls = << >>
    /\ event_queue = << >>

\* TimeInputPayload(time_single=ts, time_range=tr)
Construct(Inputs) ==
    /\ pc = "idle"
    /\ UNCHANGED executorVars
    /\ \E inp \in Inputs :
        \E made \in {TimeInputPayload(inp[1], inp[2])} :
           /\ pc' = IF made.exc = "" THEN "constructed" ELSE "rejected"
           /\ payload' = made.ret
           /\ result' = [exc |-> made.exc, ret |-> None]
           /\ current_date_str' = << >>
           /\ arguments' = Some([time_single |-> inp[1], time_range |-> inp[2]])
           /\ start_elements' = << >>
           /\ end_elements' = << >>

\* convert_datetime_payload(payload, date_str)
Convert(Refs) ==
    /\ pc = "constructed"
    /\ UNCHANGED executorVars
    /\ \E date_str \in Refs :
        /\ current_date_str' = date_str
        /\ result' = convert_datetime_payload(Val(payload), date_str)
        /\ pc' = "converted"
        /\ UNCHANGED <<payload, arguments, start_elements, end_elements>>

\* convert_datetime_payload(payload, <the datetime string of the last result>):
\* current_date_str keeps the first reference.
ConvertAgain ==
    /\ pc = "converted"
    /\ UNCHANGED executorVars
    /\ result.exc = ""
    /\ Val(result.ret).time_single # None
    /\ Val(Val(result.ret).time_single).datetime # None
    /\ result' = convert_datetime_payload(Val(payload),
                     Val(Val(Val(result.ret).time_single).datetime))
    /\ pc' = "reconverted"
    /\ UNCHANGED <<payload, current_date_str, arguments, start_elements, end_elements>>

\* The call after a call that raised: the caller builds another payload and
\* calls convert_datetime_payload again in the same process.
ConvertNext(Inputs, Refs) ==
    /\ pc = "converted"
    /\ UNCHANGED executorVars
    /\ result.exc # ""
    /\ \E inp \in Inputs, date_str \in Refs :
        \E made \in {TimeInputPayload(inp[1], inp[2])} :
           /\ made.exc = ""
           /\ arguments' = Some([time_single |-> inp[1], time_range |-> inp[2]])
           /\ payload' = made.ret
           /\ current_date_str' = date_str
           /\ result' = convert_datetime_payload(Val(made.ret), date_str)
           /\ pc' = "converted_after_failure"
           /\ UNCHANGED <<start_elements, end_elements>>

\* The part of run after the early exit: partition, date inheritance, payload,
\* resolution against the clock reading date_str.
RunResolve(time_elements, date_str) ==
    \E start_group \in {PartitionStart(time_elements)} :
    \E end_group \in {InheritDates(start_group, PartitionEnd(time_elements))} :
    \E made \in {BuildPayload(start_group, end_group)} :
        /\ start_elements' = start_group
        /\ end_elements' = end_group
        /\ payload' = made.ret
        /\ current_date_str' = date_str
        /\ result' = IF made.exc # "" THEN [exc |-> made.exc, ret |-> None]
                     ELSE ResponseData(convert_datetime_payload(Val(made.ret), date_str))
        /\ pc' = "ran"

\* DatetimeParserTool.run(arguments), reading the clock as date_str.
Run(Arguments, Refs) ==
    /\ pc = "idle"
    /\ UNCHANGED executorVars
    /\ \E args \in Arguments, date_str \in Refs :
        /\ arguments' = Some(args)
        /\ IF ShortCircuits(args)
           THEN /\ start_elements' = << >>
                /\ end_elements' = << >>
                /\ payload' = None
                /\ current_date_str' = << >>
                /\ result' = NotParsable(args)
                /\ pc' = "short_circuit"
           ELSE RunResolve(Val(args.time_elements), date_str)

\* The request is over: its payload and its result are discarded.
Return ==
    /\ pc # "idle"
    /\ UNCHANGED executorVars
    /\ pc' = "idle"
    /\ arguments' = None
    /\ start_elements' = << >>
    /\ end_elements' = << >>
    /\ payload' = None
    /\ current_date_str' = << >>
    /\ result' = NoResult

(***************************************************************************)
(* Inputs.  An optional integer field ranges over Opt(S).                  *)
(***************************************************************************)

Opt(S) == {None} \cup {Some(x) : x \in S}

Fields(y, mo, d, h, mi) ==
    [year |-> y, month |-> mo, day |-> d, hour |-> h, minute |-> mi]

TimeObj(absolute, relative, now) ==
    [absolute |-> absolute, relative |-> relative, now |-> now]

\* A single-point payload input and a range payload input of Construct.
SingleInput(t) == <<Some(t), None>>

RangeInput(s, e) == <<None, Some([start_date |-> s, end_date |-> e])>>

\* Each spec of T as a single-point spec and as both endpoints of a range.
SingleAndRange(T) == {SingleInput(t) : t \in T} \cup {RangeInput(t, t) : t \in T}

\* The reference instant as the caller writes it: an ISO-8601 string, here
\* without fraction and without zone.
IsoRef(y, mo, d, h, mi, s) == Strftime(MkDT(y, mo, d, h, mi, s, 0))

\* The same with a fraction of a second, as datetime.now().isoformat() gives.
WithFraction(str) == str \o <<".", "1", "2", "3", "4", "5", "6">>

\* The same with the trailing Z of a UTC timestamp.
WithZ(str) == str \o <<"Z">>

RefYears == {2023, 2024}

RefDays == {15, 28, 29, 30, 31}

\* The parts of the current state the claims speak about.
Reference == FromIsoFormat(current_date_str)

HasReturned == result.exc = "" /\ result.ret # None

Output == Val(result.ret)

\* The time objects of the payload with their role.
Requests ==
    IF payload = None THEN {}
    ELSE IF Val(payload).time_single # None
    THEN {<<"single", Val(Val(payload).time_single)>>}
    ELSE IF Val(payload).time_range # None
    THEN {<<"start", Val(Val(payload).time_range).start_date>>,
          <<"end", Val(Val(payload).time_range).end_date>>}
    ELSE {}

\* The ComputedDateTime returned for a role, as an optional value.
Answer(kind) ==
    IF ~HasReturned THEN None
    ELSE IF kind = "single" THEN Output.time_single
    ELSE IF Output.time_range = None THEN None
    ELSE IF kind = "start" THEN Some(Val(Output.time_range).start_date)
    ELSE Some(Val(Output.time_range).end_date)

\* The calendar fields an answer's datetime string denotes.
AnswerDT(kind) == FromIsoFormat(Val(Val(Answer(kind)).datetime))

HasDatetime(kind) == Answer(kind) # None /\ Val(Answer(kind)).datetime # None

NoneOf(r, F) == \A f \in F : r[f] = None

(***************************************************************************)
(* Relative shifts and absolute overrides (C1, C2).                        *)
(***************************************************************************)

MaxMonthOffset == 13

MaxYearOffset == 1

ValidRefs(Years, Days, h, mi, sec) ==
    {IsoRef(y, mo, d, h, mi, sec) :
        <<y, mo, d>> \in {x \in Years \X (1..12) \X Days : x[3] <= DaysInMonth(x[1], x[2])}}

ShiftRefs == ValidRefs(RefYears, RefDays, 10, 30, 45)

\* A relative year and/or month shift, with or without an absolute day.
ShiftSpecs ==
    {TimeObj(a, Some(Fields(ry, rm, None, None, None)), None) :
        <<ry, rm, a>> \in Opt(-MaxYearOffset..MaxYearOffset)
                          \X Opt(-MaxMonthOffset..MaxMonthOffset)
                          \X ({None} \cup {Some(Fields(None, None, Some(d), None, None)) :
                                              d \in {1, 31}})}

\* One field given both relatively and absolutely.
BothSpecs ==
    {TimeObj(Some([AbsoluteTime EXCEPT ![x[1][1]] = Some(x[1][2])]),
             Some([RelativeTime EXCEPT ![x[1][1]] = Some(x[2])]), None) :
        x \in {<<"year", 2025>>, <<"month", 6>>, <<"day", 10>>,
               <<"hour", 5>>, <<"minute", 20>>} \X {-1, 2}}

ShiftInputs == SingleAndRange(ShiftSpecs \cup BothSpecs)

NextShift == Construct(ShiftInputs) \/ Convert(ShiftRefs) \/ Return

SpecShift == Init /\ [][NextShift]_vars

\* A relative year and/or month shift with an absolute day and nothing else.
IsShiftDaySpec(t) ==
    /\ ~Truthy(t.now)
    /\ AbsOf(t).day # None /\ NoneOf(AbsOf(t), {"year", "month", "hour", "minute"})
    /\ RelOf(t).year # None \/ RelOf(t).month # None
    /\ NoneOf(RelOf(t), {"day", "hour", "minute"})

OrZero(o) == IF o = None THEN 0 ELSE Val(o)

\* The zero-based month count of the reference shifted by the relative year
\* and month of t.
ShiftedIndex(t) ==
    Reference.year * 12 + (Reference.month - 1)
    + 12 * OrZero(RelOf(t).year) + OrZero(RelOf(t).month)

\* C1: relative offsets are applied before absolute overrides, by
\* compute_date_time (single-point specs) and by build_expanded_endpoint
\* (range endpoints): a resolved spec with a relative year and/or month shift
\* and an absolute day has the year and month of the shifted reference and the
\* absolute day, and a field given both relatively and absolutely carries the
\* absolute value.
C1_RelativeThenAbsolute ==
    pc = "converted" =>
        \A q \in Requests :
            HasDatetime(q[1]) =>
                /\ IsShiftDaySpec(q[2]) =>
                      /\ AnswerDT(q[1]).year = ShiftedIndex(q[2]) \div 12
                      /\ AnswerDT(q[1]).month = (ShiftedIndex(q[2]) % 12) + 1
                      /\ AnswerDT(q[1]).day = Val(AbsOf(q[2]).day)
                /\ \A f \in SpecFields :
                      (AbsOf(q[2])[f] # None /\ RelOf(q[2])[f] # None)
                          => AnswerDT(q[1])[f] = Val(AbsOf(q[2])[f])

\* A range start with a relative year and month shift and an absolute day was
\* resolved to another year, month and day than the reference's.
C1_Witness ==
    /\ pc = "converted"
    /\ \E q \in Requests :
          /\ q[1] = "start" /\ HasDatetime("start") /\ IsShiftDaySpec(q[2])
          /\ RelOf(q[2]).year # None /\ RelOf(q[2]).month # None
          /\ AnswerDT("start").year # Reference.year
          /\ AnswerDT("start").month # Reference.month
          /\ AnswerDT("start").day # Reference.day

\* Only a relative month offset is given.
IsMonthOnlySpec(t) ==
    /\ ~Truthy(t.now)
    /\ NoneOf(AbsOf(t), SpecFields)
    /\ RelOf(t).month # None
    /\ NoneOf(RelOf(t), {"year", "day", "hour", "minute"})

\* The reference day exists in the month the offset of t leads to.
DayExistsInTarget(t) ==
    Reference.day <= DaysInMonth(ShiftedIndex(t) \div 12, (ShiftedIndex(t) % 12) + 1)

\* C2: for a reference (y, m) and a signed relative month offset k such that
\* the reference day exists in the target month, the resolver returns year
\* y + floor((m - 1 + k) / 12) and month ((m - 1 + k) mod 12) + 1, a month in
\* 1..12.
C2_MonthCarry ==
    (pc = "converted"
        /\ \A q \in Requests : IsMonthOnlySpec(q[2]) /\ DayExistsInTarget(q[2]))
    => \A q \in Requests :
          LET k == Val(RelOf(q[2]).month)
          IN /\ HasDatetime(q[1])
             /\ AnswerDT(q[1]).year
                    = Reference.year + ((Reference.month - 1 + k) \div 12)
             /\ AnswerDT(q[1]).month = ((Reference.month - 1 + k) % 12) + 1
             /\ AnswerDT(q[1]).month \in 1..12

\* Month 11, day 15 with k = +3 was resolved to month 2 of the next year.
C2_Witness ==
    /\ pc = "converted"
    /\ \E q \in Requests :
          /\ IsMonthOnlySpec(q[2]) /\ HasDatetime(q[1])
          /\ Reference.month = 11 /\ Reference.day = 15
          /\ Val(RelOf(q[2]).month) = 3
          /\ AnswerDT(q[1]).month = 2
          /\ AnswerDT(q[1]).year = Reference.year + 1

(***************************************************************************)
(* Construction and resolution of single-point and range payloads          *)
(* (C3, C6, C9, C10).                                                      *)
(***************************************************************************)

MaxDayOffset == 2

\* Absolute components: absent, present and empty, dates, a time of day, and
\* values no calendar has.
AbsChoices ==
    {None, Some(AbsoluteTime),
     Some(Fields(None, Some(7), Some(30), None, None)),
     Some(Fields(None, Some(2), Some(29), None, None)),
     Some(Fields(None, None, None, Some(5), None)),
     Some(Fields(None, None, Some(32), None, None)),
     Some(Fields(None, Some(13), None, None, None)),
     Some(Fields(None, None, None, Some(24), Some(60)))}

\* Relative components: absent, present and empty, day offsets, a month
\* offset and a minute offset.
RelChoices ==
    {None, Some(RelativeTime),
     Some(Fields(None, Some(1), None, None, None)),
     Some(Fields(None, None, None, None, Some(-90)))}
    \cup {Some(Fields(None, None, Some(k), None, None)) : k \in -MaxDayOffset..MaxDayOffset}

GeneralSpecs ==
    {TimeObj(x[1], x[2], x[3]) : x \in AbsChoices \X RelChoices \X {None, Some(TRUE), Some(FALSE)}}

EmptyObj == TimeObj(None, None, None)

\* Both fields of the payload set, and neither.
MalformedInputs ==
    {<<Some(t), Some([start_date |-> t, end_date |-> EmptyObj])>> :
        t \in {EmptyObj, TimeObj(None, None, Some(TRUE)),
               TimeObj(Some(Fields(None, Some(7), Some(30), None, None)), None, None)}}

Inputs ==
    SingleAndRange(GeneralSpecs)
    \cup {RangeInput(t, EmptyObj) : t \in GeneralSpecs}
    \cup {RangeInput(TimeObj(None, None, Some(TRUE)), t) : t \in GeneralSpecs}
    \cup MalformedInputs \cup {<<None, None>>}

RefDates ==
    {<<2024, 1, 1>>, <<2024, 1, 31>>, <<2024, 2, 29>>, <<2024, 3, 1>>,
     <<2023, 12, 31>>, <<2023, 7, 15>>}

RefTimes == {<<0, 0, 0>>, <<10, 0, 0>>, <<23, 59, 30>>}

Refs ==
    {IsoRef(x[1][1], x[1][2], x[1][3], x[2][1], x[2][2], x[2][3]) : x \in RefDates \X RefTimes}
    \cup {WithFraction(IsoRef(2024, 3, 1, 8, 0, 0)),
          WithZ(WithFraction(IsoRef(2024, 6, 30, 12, 34, 56)))}

Next == Construct(Inputs) \/ Convert(Refs) \/ Return

Spec == Init /\ [][Next]_vars

\* The only field of t is relative day = 0.
IsRelativeDayZeroOnly(t) ==
    /\ ~Truthy(t.now)
    /\ NoneOf(AbsOf(t), SpecFields)
    /\ RelOf(t).day = Some(0)
    /\ NoneOf(RelOf(t), {"year", "month", "hour", "minute"})

\* The reference instant, to the second.
ReferenceInstant == Replace(Reference, [microsecond |-> 0])

SameInstant(a, b) ==
    /\ a.year = b.year /\ a.month = b.month /\ a.day = b.day
    /\ a.hour = b.hour /\ a.minute = b.minute /\ a.second = b.second

IsStartOfDay(a) == a.hour = 0 /\ a.minute = 0 /\ a.second = 0

IsEndOfDay(a) == a.hour = 23 /\ a.minute = 59 /\ a.second = 59

SameDate(a, b) == a.year = b.year /\ a.month = b.month /\ a.day = b.day

\* C3 as stated: a single-point spec whose only field is relative day = 0
\* resolves to the reference instant, and a range endpoint with that spec
\* resolves to the boundary of the reference's day, 00:00:00 for the start and
\* 23:59:59 for the end.
C3_Original ==
    pc = "converted" =>
        \A q \in Requests :
            (IsRelativeDayZeroOnly(q[2]) /\ HasDatetime(q[1])) =>
                /\ SameDate(AnswerDT(q[1]), ReferenceInstant)
                /\ q[1] = "single" => SameInstant(AnswerDT(q[1]), ReferenceInstant)
                /\ q[1] = "start" => IsStartOfDay(AnswerDT(q[1]))
                /\ q[1] = "end" => IsEndOfDay(AnswerDT(q[1]))

\* C3 (amended): a spec whose only field is relative day = 0 resolves to the
\* reference instant itself (same date, hour, minute and second) as a
\* single-point spec and also as the start or the end endpoint of a range: the
\* endpoint is not expanded to the boundary of the day.
C3_RelativeDayZeroIsMoment ==
    pc = "converted" =>
        \A q \in Requests :
            IsRelativeDayZeroOnly(q[2]) =>
                (HasReturned =>
                    /\ HasDatetime(q[1])
                    /\ SameInstant(AnswerDT(q[1]), ReferenceInstant))

\* A range whose two endpoints are relative day = 0 was resolved at 10:00:00:
\* both endpoints are the reference instant, not a boundary of the day.
C3_Witness ==
    /\ pc = "converted"
    /\ Val(payload).time_range # None
    /\ \A q \in Requests : IsRelativeDayZeroOnly(q[2]) /\ HasDatetime(q[1])
    /\ ReferenceInstant.hour = 10
    /\ AnswerDT("start").hour = 10 /\ AnswerDT("end").hour = 10

\* t gives no hour and no minute, absolute or relative.
HasNoTimeOfDay(t) ==
    /\ NoneOf(AbsOf(t), {"hour", "minute"})
    /\ NoneOf(RelOf(t), {"hour", "minute"})

\* C6: a single-point spec with no hour and no minute is never span-expanded:
\* its result keeps the hour, minute and second of the reference instant
\* (absolute month=7, day=30 against a reference at 10:00:00 gives July 30,
\* 10:00:00 of the reference year).
C6_SingleNotExpanded ==
    (pc = "converted" /\ Val(payload).time_single # None)
    => \A q \in Requests :
          (HasNoTimeOfDay(q[2]) /\ HasDatetime("single")) =>
              /\ AnswerDT("single").hour = ReferenceInstant.hour
              /\ AnswerDT("single").minute = ReferenceInstant.minute
              /\ AnswerDT("single").second = ReferenceInstant.second
              /\ (q[2].absolute = Some(Fields(None, Some(7), Some(30), None, None))
                  /\ q[2].relative = None)
                 => /\ AnswerDT("single").year = ReferenceInstant.year
                    /\ AnswerDT("single").month = 7
                    /\ AnswerDT("single").day = 30

\* Absolute month=7, day=30 as a single-point spec against 2024-01-01T10:00:00
\* gave 2024-07-30T10:00:00.
C6_Witness ==
    /\ pc = "converted"
    /\ current_date_str = IsoRef(2024, 1, 1, 10, 0, 0)
    /\ Val(payload).time_single
          = Some(TimeObj(Some(Fields(None, Some(7), Some(30), None, None)), None, None))
    /\ HasDatetime("single")
    /\ Val(Val(Answer("single")).datetime) = IsoRef(2024, 7, 30, 10, 0, 0)

\* C9: a time object with now = true resolves to ComputedDateTime(now = true)
\* without a datetime whatever its other fields hold and whatever its role, a
\* payload whose time objects all have now = true never fails, and every other
\* resolved time object has datetime set and now unset.
C9_NowShortCircuits ==
    pc = "converted" =>
        /\ (Requests # {} /\ \A q \in Requests : Truthy(q[2].now))
              => HasReturned /\ \A q \in Requests : Answer(q[1]) # None
        /\ \A q \in Requests :
              Answer(q[1]) # None =>
                  IF Truthy(q[2].now)
                  THEN Val(Answer(q[1])) = [now |-> Some(TRUE), datetime |-> None]
                  ELSE /\ Val(Answer(q[1])).now = None
                       /\ Val(Answer(q[1])).datetime # None

\* A range whose start has now = true and day = 32 and whose end has no now
\* was resolved: the start is the now marker, the end a datetime.
C9_Witness ==
    /\ pc = "converted"
    /\ Val(payload).time_range # None
    /\ HasReturned
    /\ \E q \in Requests :
          /\ q[1] = "start" /\ Truthy(q[2].now) /\ AbsOf(q[2]).day = Some(32)
          /\ Val(Answer("start")).now = Some(TRUE)
    /\ Val(Answer("end")).datetime # None

BothSet(args) == args.time_single # None /\ args.time_range # None

\* C10: constructing a TimeInputPayload with time_single and time_range both
\* set fails with a validation error and yields no payload, construction with
\* at most one set succeeds, and the payload that convert_datetime_payload is
\* given has at most one of the two set.
C10_ExclusiveFields ==
    /\ pc \in {"constructed", "rejected"} =>
          /\ (pc = "rejected") <=> BothSet(Val(arguments))
          /\ pc = "rejected" => payload = None /\ result.exc = "ValidationError"
          /\ pc = "constructed" => payload = Some(Val(arguments)) /\ result.exc = ""
    /\ pc \in {"converted", "reconverted"} =>
          /\ payload # None
          /\ ~BothSet(Val(payload))

\* A construction with both fields set was rejected.
C10_Witness ==
    /\ pc = "rejected"
    /\ BothSet(Val(arguments))
    /\ payload = None
    /\ result.exc = "ValidationError"

(***************************************************************************)
(* Ranges of two absolute month-and-day endpoints (C5).                    *)
(***************************************************************************)

\* Month and day pairs that are dates of every reference year.
MonthDays == {<<7, 30>>, <<7, 31>>, <<4, 10>>, <<2, 28>>, <<12, 31>>, <<1, 1>>}

MonthDaySpec(md) == TimeObj(Some(Fields(None, Some(md[1]), Some(md[2]), None, None)), None, None)

DateRangeInputs ==
    {RangeInput(MonthDaySpec(x[1]), MonthDaySpec(x[2])) : x \in MonthDays \X MonthDays}

DateRangeRefs ==
    ValidRefs(RefYears, RefDays, 10, 30, 45) \cup ValidRefs(RefYears, {1, 15}, 0, 0, 0)

NextDateRange == Construct(DateRangeInputs) \/ Convert(DateRangeRefs) \/ Return

SpecDateRange == Init /\ [][NextDateRange]_vars

\* t gives only an absolute month and an absolute day, a date of year y.
IsMonthDayOnly(t, y) ==
    /\ ~Truthy(t.now)
    /\ AbsOf(t).month # None /\ AbsOf(t).day # None
    /\ NoneOf(AbsOf(t), {"year", "hour", "minute"})
    /\ NoneOf(RelOf(t), SpecFields)
    /\ Val(AbsOf(t).month) \in 1..12
    /\ Val(AbsOf(t).day) \in 1..DaysInMonth(y, Val(AbsOf(t).month))

\* C5: a range whose endpoints each give only an absolute month and day, a
\* valid date of the reference year, resolves for every reference instant to
\* 00:00:00 of the start date and 23:59:59 of the end date in the reference
\* year; the reference's month, day and time of day have no effect.
C5_DateOnlyRange ==
    (pc = "converted" /\ Val(payload).time_range # None
        /\ \A q \in Requests : IsMonthDayOnly(q[2], Reference.year))
    => /\ HasReturned
       /\ \A q \in Requests :
             /\ HasDatetime(q[1])
             /\ Val(Val(Answer(q[1])).datetime)
                   = IF q[1] = "start"
                     THEN IsoRef(Reference.year, Val(AbsOf(q[2]).month),
                                 Val(AbsOf(q[2]).day), 0, 0, 0)
                     ELSE IsoRef(Reference.year, Val(AbsOf(q[2]).month),
                                 Val(AbsOf(q[2]).day), 23, 59, 59)

(***************************************************************************)
(* Elapsed-time offsets and the round trip through the datetime string     *)
(* (C7, C8).                                                               *)
(***************************************************************************)

DayOffsets == (-MaxDayOffset..MaxDayOffset) \cup {-31, 31}

HourOffsets == {-25, -1, 1, 25}

MinuteOffsets == {-61, 1, 90}

ElapsedSpecs ==
    {TimeObj(None, Some(Fields(None, None, x[1], x[2], x[3])), None) :
        x \in Opt(DayOffsets) \X Opt(HourOffsets) \X Opt(MinuteOffsets)}

RoundTripInputs == {SingleInput(t) : t \in ElapsedSpecs}

NextRoundTrip == Construct(RoundTripInputs) \/ Convert(Refs) \/ ConvertAgain \/ Return

SpecRoundTrip == Init /\ [][NextRoundTrip]_vars

\* The calendar, one step at a time.
NextDay(d) ==
    IF d.day < DaysInMonth(d.year, d.month) THEN [d EXCEPT !.day = @ + 1]
    ELSE IF d.month < 12 THEN [d EXCEPT !.month = @ + 1, !.day = 1]
    ELSE [d EXCEPT !.year = @ + 1, !.month = 1, !.day = 1]

PrevDay(d) ==
    IF d.day > 1 THEN [d EXCEPT !.day = @ - 1]
    ELSE IF d.month > 1
    THEN [d EXCEPT !.month = @ - 1, !.day = DaysInMonth(d.year, d.month - 1)]
    ELSE [d EXCEPT !.year = @ - 1, !.month = 12, !.day = 31]

\* The day n days after d (before d for a negative n), one day at a time.
RECURSIVE Walk(_, _)
Walk(d, n) ==
    IF n = 0 THEN d
    ELSE The({Walk(x, m) :
                 x \in {IF n > 0 THEN NextDay(d) ELSE PrevDay(d)},
                 m \in {IF n > 0 THEN n - 1 ELSE n + 1}})

\* The instant on the clock `minutes` minutes after d: the minutes that do not
\* fit the hour carry into the hour and the hours that do not fit the day
\* carry into the calendar, which is walked day by day.
Later(d, days, minutes) ==
    The({Walk([d EXCEPT !.hour = (t \div 60) % 24, !.minute = t % 60],
              days + (t \div 1440)) :
            t \in {d.hour * 60 + d.minute + minutes}})

\* t gives only relative day, hour and minute offsets, at least one.
IsElapsedOnly(t) ==
    /\ ~Truthy(t.now)
    /\ NoneOf(AbsOf(t), SpecFields)
    /\ NoneOf(RelOf(t), {"year", "month"})
    /\ ~NoneOf(RelOf(t), {"day", "hour", "minute"})

\* The instant the offsets of t lead to from d, walking the calendar.
Elapsed(d, t) ==
    Later(d, OrZero(RelOf(t).day), 60 * OrZero(RelOf(t).hour) + OrZero(RelOf(t).minute))

\* C7: relative day, hour and minute offsets are elapsed-time addition on the
\* whole timestamp: for every reference and every signed offset the result is
\* the calendar instant that many days, hours and minutes away, across day,
\* month and year boundaries with the days-in-month and leap-year rules.
C7_ElapsedTimeAddition ==
    (pc = "converted" /\ Val(payload).time_single # None)
    => \A q \in Requests :
          IsElapsedOnly(q[2]) =>
              /\ HasDatetime("single")
              /\ SameInstant(AnswerDT("single"), Elapsed(ReferenceInstant, q[2]))

\* Relative day -1 from 2024-03-01T08:00:00 gave 2024-02-29T08:00:00.
C7_Witness ==
    /\ pc = "converted"
    /\ Reference.year = 2024 /\ Reference.month = 3 /\ Reference.day = 1
    /\ Reference.hour = 8
    /\ Val(payload).time_single
          = Some(TimeObj(None, Some(Fields(None, None, Some(-1), None, None)), None))
    /\ HasDatetime("single")
    /\ Val(Val(Answer("single")).datetime) = IsoRef(2024, 2, 29, 8, 0, 0)

Twice(o) == IF o = None THEN None ELSE Some(2 * Val(o))

\* The single-point payload whose day, hour and minute offsets are twice
\* those of p.
Doubled(p) ==
    [p EXCEPT !.time_single =
        Some([Val(@) EXCEPT !.relative =
            Some([Val(@) EXCEPT !.day = Twice(@), !.hour = Twice(@),
                                !.minute = Twice(@)])])]

\* C8: resolving a relative day/hour/minute spec r against c and resolving r
\* again with the first result's datetime string as the reference gives the
\* timestamp of resolving once against c the spec with twice the offsets of r.
C8_RoundTrip ==
    (pc = "reconverted" /\ \A q \in Requests : IsElapsedOnly(q[2]))
    => result = convert_datetime_payload(Doubled(Val(payload)), current_date_str)

\* A spec with day, hour and minute offsets was resolved twice in a row from
\* a reference with a fraction of a second, and the date moved.
C8_Witness ==
    /\ pc = "reconverted"
    /\ \A q \in Requests : IsElapsedOnly(q[2])
    /\ \E q \in Requests :
          /\ RelOf(q[2]).day # None /\ RelOf(q[2]).hour # None
          /\ RelOf(q[2]).minute # None
    /\ Len(current_date_str) > 19
    /\ HasDatetime("single")
    /\ ~SameDate(AnswerDT("single"), Reference)

(***************************************************************************)
(* The datetime_parser tool (C4).                                          *)
(***************************************************************************)

MaxElements == 3

Fragment(mode, tag, unit, value) ==
    [mode |-> mode, time_range |-> tag, offset_unit |-> unit, offset_value |-> value]

StartMonth7 == Fragment(Some("absolute"), Some("start"), "month", 7)

StartDay30 == Fragment(Some("absolute"), Some("start"), "day", 30)

StartHour2 == Fragment(Some("absolute"), Some("start"), "hour", 2)

EndHour5 == Fragment(Some("absolute"), Some("end"), "hour", 5)

FragmentChoices ==
    {StartMonth7, StartDay30, StartHour2, EndHour5,
     Fragment(Some("relative"), None, "day", 1),
     Fragment(Some("absolute"), Some("end"), "day", 31),
     Fragment(None, Some("start"), "monday", 1),
     Fragment(Some("absolute"), Some("end"), "second", 30),
     Fragment(Some("relative"), Some("end"), "minute", 15)}

\* "from 2 AM to 5 AM on July 30th"
InheritanceScenario == <<StartMonth7, StartDay30, StartHour2, EndHour5>>

ElementLists ==
    UNION {[1..n -> FragmentChoices] : n \in 0..MaxElements} \cup {InheritanceScenario}

ToolArguments ==
    {[parsable |-> Some(TRUE), reasoning |-> Some("reasoning"), time_elements |-> Some(l)] :
        l \in ElementLists}
    \cup {[parsable |-> x[1], reasoning |-> x[2], time_elements |-> x[3]] :
            x \in {None, Some(FALSE)} \X {None, Some("reasoning")}
                  \X {None, Some(<< >>), Some(<<StartHour2>>)}}
    \cup {[parsable |-> Some(TRUE), reasoning |-> None, time_elements |-> None]}

\* Readings of the clock, as datetime.now().isoformat() writes them.
ToolRefs ==
    {IsoRef(2024, 1, 1, 10, 0, 0), WithFraction(IsoRef(2023, 6, 30, 23, 50, 0))}

NextTool == Run(ToolArguments, ToolRefs) \/ Return

SpecTool == Init /\ [][NextTool]_vars

\* The fragments of the request and its two groups before inheritance.
TimeElements == Val(Val(arguments).time_elements)

TaggedEnd == SelectSeq(TimeElements, LAMBDA e : e.time_range = Some("end"))

TaggedStart == SelectSeq(TimeElements, LAMBDA e : e.time_range # Some("end"))

DateLevelUnits ==
    {"year", "month", "day", "sunday", "monday", "tuesday", "wednesday",
     "thursday", "friday", "saturday"}

DateLevelOf(elements) == SelectSeq(elements, LAMBDA e : e.offset_unit \in DateLevelUnits)

\* Inheritance applies: the end group is non-empty and has no date-level unit.
EndLacksDate == TaggedEnd # << >> /\ DateLevelOf(TaggedEnd) = << >>

\* No fragment moves the clock by a relative hour or minute.
NoRelativeTimeOfDay ==
    \A i \in 1..Len(TimeElements) :
        TimeElements[i].mode = Some("relative")
            => TimeElements[i].offset_unit \notin {"hour", "minute"}

\* The start group has a day fragment: its date is a day, not a whole month.
StartNamesDay == \E i \in 1..Len(TaggedStart) : TaggedStart[i].offset_unit = "day"

EmptyObjects ==
    {TimeObj(x[1], x[2], x[3]) :
        x \in {None, Some(AbsoluteTime)} \X {None, Some(RelativeTime)} \X {None, Some(FALSE)}}

\* Time objects with data: dates, offsets, times of day, now, and a day no
\* calendar has.
DataObjects ==
    {TimeObj(Some(Fields(None, Some(7), Some(30), None, None)), None, None),
     TimeObj(Some(Fields(Some(2025), None, None, None, None)), Some(RelativeTime), None),
     TimeObj(Some(Fields(None, None, None, Some(5), None)), None, Some(FALSE)),
     TimeObj(Some(Fields(None, None, Some(32), None, None)), None, None),
     TimeObj(None, Some(Fields(None, None, Some(1), None, None)), None),
     TimeObj(None, Some(Fields(None, None, Some(0), None, None)), None),
     TimeObj(Some(AbsoluteTime), Some(Fields(None, Some(1), None, None, None)), None),
     TimeObj(None, Some(Fields(None, None, None, None, Some(-90))), None),
     TimeObj(None, None, Some(TRUE))}

EmptinessInputs ==
    {<<None, None>>}
    \cup {SingleInput(t) : t \in EmptyObjects \cup DataObjects}
    \cup {RangeInput(x[1], x[2]) :
            x \in (EmptyObjects \X DataObjects) \cup (DataObjects \X EmptyObjects)
                  \cup (EmptyObjects \X EmptyObjects)}

NextEmptiness == Construct(EmptinessInputs) \/ Convert(Refs) \/ Return

SpecEmptiness == Init /\ [][NextEmptiness]_vars

\* t has no data: now is not set and every absolute and relative field is
\* unset.
IsEmptySpec(t) ==
    /\ ~Truthy(t.now)
    /\ NoneOf(AbsOf(t), SpecFields)
    /\ NoneOf(RelOf(t), SpecFields)

\* The result is a rejection: not parsable, with a reason that is not the
\* empty string.
IsRejection(out) ==
    /\ out.parsable = FALSE
    /\ out.reason # None
    /\ Val(out.reason) # ""

\* C11: convert_datetime_payload returns parsable = false with a non-empty
\* reason and neither time_single nor time_range when the payload has no
\* single and no range, and when it has a single that is empty (now not set,
\* every absolute and relative field unset, an absolute or relative object
\* with its five fields unset included).
C11_EmptyIsRejected ==
    (pc = "converted"
        /\ \/ Val(payload).time_single = None /\ Val(payload).time_range = None
           \/ Val(payload).time_single # None
              /\ IsEmptySpec(Val(Val(payload).time_single)))
    => /\ HasReturned
       /\ IsRejection(Output)
       /\ Output.time_single = None
       /\ Output.time_range = None

\* A single whose absolute and relative objects are present with every field
\* unset was rejected.
C11_Witness ==
    /\ pc = "converted"
    /\ Val(payload).time_single # None
    /\ Val(Val(payload).time_single).absolute = Some(AbsoluteTime)
    /\ Val(Val(payload).time_single).relative = Some(RelativeTime)
    /\ HasReturned
    /\ Output.parsable = FALSE
    /\ Output.reason = Some(ReasonEmptySingle)

\* The range of the payload has exactly one empty endpoint.
OneEmptyEndpoint ==
    /\ pc = "converted"
    /\ Val(payload).time_range # None
    /\ IsEmptySpec(Val(Val(payload).time_range).start_date)
          # IsEmptySpec(Val(Val(payload).time_range).end_date)

\* The boundary of the reference's day an empty endpoint resolves to.
DayBoundary(kind) ==
    IF kind = "start"
    THEN IsoRef(Reference.year, Reference.month, Reference.day, 0, 0, 0)
    ELSE IsoRef(Reference.year, Reference.month, Reference.day, 23, 59, 59)

\* C12: a range with exactly one empty endpoint is processed: the call fails
\* only if the resolution of the non-empty endpoint fails, and otherwise the
\* result has parsable = true, no reason and a time_range whose non-empty
\* endpoint is resolved by the rules of a range endpoint and whose empty
\* endpoint is 00:00:00 (start) or 23:59:59 (end) of the reference date.
C12_OneEmptyEndpointProcessed ==
    OneEmptyEndpoint =>
        \A q \in Requests :
            IF IsEmptySpec(q[2])
            THEN HasReturned =>
                    /\ Output.parsable = TRUE
                    /\ Output.reason = None
                    /\ Output.time_single = None
                    /\ HasDatetime(q[1])
                    /\ Val(Answer(q[1])).now = None
                    /\ Val(Val(Answer(q[1])).datetime) = DayBoundary(q[1])
            ELSE /\ HasReturned <=> ConvertEndpoint(q[2], q[1] = "start", Reference).exc = ""
                 /\ HasReturned =>
                       Answer(q[1]) = ConvertEndpoint(q[2], q[1] = "start", Reference).ret

\* A range with an empty start and the end "absolute month 7, day 30" was
\* resolved against a reference at 10:00:00: the start is midnight of the
\* reference date and the end is the last second of July 30.
C12_Witness ==
    /\ OneEmptyEndpoint
    /\ HasReturned
    /\ Output.parsable = TRUE
    /\ Reference.hour = 10
    /\ IsEmptySpec(Val(Val(payload).time_range).start_date)
    /\ Val(Val(Answer("start")).datetime) = DayBoundary("start")
    /\ HasDatetime("end")
    /\ AnswerDT("end").month = 7 /\ AnswerDT("end").day = 30
    /\ IsEndOfDay(AnswerDT("end"))

\* The range of the payload has two empty endpoints.
BothEndpointsEmpty ==
    /\ pc = "converted"
    /\ Val(payload).time_range # None
    /\ \A q \in Requests : IsEmptySpec(q[2])

\* C13: a range present with both endpoints empty yields a result with
\* parsable = false and a non-empty reason.
C13_BothEmptyRejected ==
    BothEndpointsEmpty => HasReturned /\ IsRejection(Output)

\* A range of two empty endpoints written in two different ways was rejected.
C13_Witness ==
    /\ BothEndpointsEmpty
    /\ Val(Val(payload).time_range).start_date # Val(Val(payload).time_range).end_date
    /\ HasReturned
    /\ Output.parsable = FALSE
    /\ Output.reason = Some(ReasonEmptyRange)

(***************************************************************************)
(* The early exit of the datetime_parser tool (C14).                       *)
(***************************************************************************)

\* Requests with the parsable flag absent, false and true, the reasoning
\* absent, empty and given, and time_elements absent, empty and non-empty.
EarlyExitArguments ==
    {[parsable |-> x[1], reasoning |-> x[2], time_elements |-> x[3]] :
        x \in {None, Some(FALSE), Some(TRUE)}
              \X {None, Some(""), Some("reasoning"), Some("no date in the input")}
              \X ({None, Some(<< >>), Some(InheritanceScenario)}
                  \cup {Some(<<f>>) : f \in FragmentChoices})}

NextEarlyExit == Run(EarlyExitArguments, ToolRefs) \/ Return

SpecEarlyExit == Init /\ [][NextEarlyExit]_vars

\* The request asks for nothing to resolve: parsable is false or absent, or
\* time_elements is empty or absent.
NothingToResolve ==
    \/ Val(arguments).parsable = None
    \/ Val(arguments).parsable = Some(FALSE)
    \/ Val(arguments).time_elements = None
    \/ Val(arguments).time_elements = Some(<< >>)

\* C14: run short-circuits when the parsable argument is false or absent or
\* when time_elements is empty or absent: it returns parsable = false with the
\* caller's reasoning string as the reason and neither time_single nor
\* time_range, and for that request no fragment is partitioned, no payload is
\* built and the resolver is not called (the clock is not read); every other
\* request goes through the resolver.
C14_RunShortCircuits ==
    (pc # "idle" /\ arguments # None) =>
        IF NothingToResolve
        THEN /\ pc = "short_circuit"
             /\ start_elements = << >> /\ end_elements = << >>
             /\ payload = None
             /\ current_date_str = << >>
             /\ HasReturned
             /\ Output.parsable = FALSE
             /\ Val(arguments).reasoning # None => Output.reason = Val(arguments).reasoning
             /\ Output.time_single = None
             /\ Output.time_range = None
        ELSE /\ pc = "ran"
             /\ payload # None
             /\ current_date_str # << >>

\* A request with parsable = true, a reasoning string and an empty
\* time_elements was answered by the early exit.
C14_Witness ==
    /\ pc = "short_circuit"
    /\ Val(arguments).parsable = Some(TRUE)
    /\ Val(arguments).time_elements = Some(<< >>)
    /\ Val(arguments).reasoning = Some("no date in the input")
    /\ HasReturned
    /\ Output.reason = Some("no date in the input")
    /\ payload = None

(***************************************************************************)
(* Absolute values no calendar has (C15).                                  *)
(***************************************************************************)

\* Absolute components with a value out of range, or with a day that some or
\* every month reached does not have.
BadAbsolutes ==
    {Fields(None, None, Some(32), None, None),
     Fields(None, Some(13), None, None, None),
     Fields(None, Some(0), None, None, None),
     Fields(None, None, None, Some(24), None),
     Fields(None, None, None, None, Some(60)),
     Fields(None, Some(4), Some(31), None, None),
     Fields(None, Some(2), Some(30), None, None),
     Fields(None, Some(2), Some(29), None, None),
     Fields(None, None, Some(31), None, None)}

OutOfRangeSpecs ==
    {TimeObj(Some(x[1]), x[2], x[3]) :
        x \in BadAbsolutes \X {None, Some(Fields(None, Some(1), None, None, None))}
              \X {None, Some(FALSE)}}

July30 == TimeObj(Some(Fields(None, Some(7), Some(30), None, None)), None, None)

HalfPastFive == TimeObj(Some(Fields(None, None, None, Some(5), Some(30))), None, None)

Today == TimeObj(None, Some(Fields(None, None, Some(0), None, None)), None)

RightNow == TimeObj(None, None, Some(TRUE))

\* Specs that resolve against every reference.
ValidSpecs == {July30, HalfPastFive, Today, RightNow}

ValidInputs == SingleAndRange(ValidSpecs)

OutOfRangeInputs ==
    SingleAndRange(OutOfRangeSpecs) \cup ValidInputs
    \cup {RangeInput(July30, t) : t \in OutOfRangeSpecs}
    \cup {RangeInput(t, HalfPastFive) : t \in OutOfRangeSpecs}

\* The references of the call after the failure.
LaterRefs ==
    {IsoRef(2024, 2, 29, 10, 0, 0), IsoRef(2023, 12, 31, 23, 59, 30),
     WithFraction(IsoRef(2024, 3, 1, 8, 0, 0))}

NextOutOfRange ==
    \/ Construct(OutOfRangeInputs)
    \/ Convert(Refs)
    \/ ConvertNext(ValidInputs, LaterRefs)
    \/ Return

SpecOutOfRange == Init /\ [][NextOutOfRange]_vars

\* The year and month the absolute day of t lands in: the absolute ones where
\* given, else those of the reference shifted by the relative year and month.
ResultingYear(t) ==
    IF AbsOf(t).year # None THEN Val(AbsOf(t).year) ELSE ShiftedIndex(t) \div 12

ResultingMonth(t) ==
    IF AbsOf(t).month # None THEN Val(AbsOf(t).month) ELSE (ShiftedIndex(t) % 12) + 1

\* t is resolved by arithmetic and has an absolute value out of range: a
\* month outside 1..12, an hour outside 0..23, a minute outside 0..59, or a
\* day outside 1..31 or missing in the resulting month.
HasOutOfRangeValue(t) ==
    /\ ~Truthy(t.now)
    /\ \/ AbsOf(t).month # None /\ Val(AbsOf(t).month) \notin 1..12
       \/ AbsOf(t).hour # None /\ Val(AbsOf(t).hour) \notin 0..23
       \/ AbsOf(t).minute # None /\ Val(AbsOf(t).minute) \notin 0..59
       \/ AbsOf(t).day # None /\ Val(AbsOf(t).day) \notin 1..31
       \/ /\ AbsOf(t).day # None
          /\ ResultingMonth(t) \in 1..12
          /\ Val(AbsOf(t).day) > DaysInMonth(ResultingYear(t), ResultingMonth(t))

\* What the specs of ValidSpecs resolve to in each role, written out from
\* the reference.
ExpectedAnswer(kind, t) ==
    IF t = RightNow THEN [now |-> Some(TRUE), datetime |-> None]
    ELSE [now |-> None,
          datetime |-> Some(
              IF t = July30
              THEN IF kind = "single"
                   THEN IsoRef(Reference.year, 7, 30,
                               Reference.hour, Reference.minute, Reference.second)
                   ELSE IF kind = "start" THEN IsoRef(Reference.year, 7, 30, 0, 0, 0)
                   ELSE IsoRef(Reference.year, 7, 30, 23, 59, 59)
              ELSE IF t = HalfPastFive
              THEN IsoRef(Reference.year, Reference.month, Reference.day, 5, 30, 0)
              ELSE IsoRef(Reference.year, Reference.month, Reference.day,
                          Reference.hour, Reference.minute, Reference.second))]

\* C15: an absolute value out of range (day = 32, month = 13 or 0, hour = 24,
\* minute = 60, or a day the resulting month does not have) in a spec that is
\* resolved by arithmetic is not validated beforehand: the call raises the
\* date library's ValueError and returns no TimeConvertedPayload.  The failure
\* leaves nothing behind: a later call with a valid input returns what that
\* input resolves to against its own reference.
C15_OutOfRangeFails ==
    /\ (pc = "converted" /\ \E q \in Requests : HasOutOfRangeValue(q[2]))
          => result.exc = "ValueError" /\ result.ret = None
    /\ pc = "converted_after_failure"
          => /\ HasReturned
             /\ Output.parsable = TRUE
             /\ Output.reason = None
             /\ \A q \in Requests : Answer(q[1]) = Some(ExpectedAnswer(q[1], q[2]))

\* After a call that raised, the range July 30 .. July 30 was resolved against
\* 2024-02-29T10:00:00 to the whole of July 30, 2024.
C15_Witness ==
    /\ pc = "converted_after_failure"
    /\ current_date_str = IsoRef(2024, 2, 29, 10, 0, 0)
    /\ Val(payload).time_range = Some([start_date |-> July30, end_date |-> July30])
    /\ HasReturned
    /\ Val(Val(Answer("start")).datetime) = IsoRef(2024, 7, 30, 0, 0, 0)
    /\ Val(Val(Answer("end")).datetime) = IsoRef(2024, 7, 30, 23, 59, 59)

(***************************************************************************)
(* Span expansion of range endpoints to a month and to a year (C16, C17).  *)
(***************************************************************************)

\* A year given absolutely, relatively or not at all.
YearChoices ==
    {<<None, None>>, <<Some(2025), None>>}
    \cup {<<None, Some(k)>> : k \in -MaxYearOffset..MaxYearOffset}

\* Endpoints that name a month, absolutely or by an offset, with or without a
\* year, and nothing below the month.
MonthLevelSpecs ==
    {TimeObj(Some(Fields(x[2][1], Some(x[1]), None, None, None)),
             IF x[2][2] = None THEN None
             ELSE Some(Fields(x[2][2], None, None, None, None)), None) :
        x \in (1..12) \X YearChoices}
    \cup {TimeObj(IF x[2][1] = None THEN None
                  ELSE Some(Fields(x[2][1], None, None, None, None)),
                  Some(Fields(x[2][2], Some(x[1]), None, None, None)), None) :
            x \in (-MaxMonthOffset..MaxMonthOffset) \X YearChoices}

\* Endpoints that name a year and nothing else.
YearLevelSpecs ==
    {TimeObj(Some(Fields(Some(y), None, None, None, None)), None, None) :
        y \in {2023, 2024, 2025}}
    \cup {TimeObj(None, Some(Fields(Some(k), None, None, None, None)), None) :
            k \in -MaxYearOffset..MaxYearOffset}

SpanInputs == {RangeInput(t, t) : t \in MonthLevelSpecs \cup YearLevelSpecs}

SpanRefs == ValidRefs(RefYears, RefDays, 10, 30, 45)

NextSpan == Construct(SpanInputs) \/ Convert(SpanRefs) \/ Return

SpecSpan == Init /\ [][NextSpan]_vars

\* t names a month (absolute in 1..12, or a relative offset) and no day, hour
\* or minute.
IsMonthLevel(t) ==
    /\ ~Truthy(t.now)
    /\ \/ AbsOf(t).month # None /\ Val(AbsOf(t).month) \in 1..12
       \/ AbsOf(t).month = None /\ RelOf(t).month # None
    /\ NoneOf(AbsOf(t), {"day", "hour", "minute"})
    /\ NoneOf(RelOf(t), {"day", "hour", "minute"})

\* The first and the last second of month mo of year y.
MonthBoundary(kind, y, mo) ==
    IF kind = "start" THEN IsoRef(y, mo, 1, 0, 0, 0)
    ELSE IsoRef(y, mo, DaysInMonth(y, mo), 23, 59, 59)

\* C16: for every reference instant, the reference day 29, 30 or 31
\* included, a range endpoint that names a month and no day, hour or minute
\* resolves as start to the first day of the target month at 00:00:00 and as
\* end to its last day (28, 29, 30 or 31) at 23:59:59.
C16_MonthSpan ==
    (pc = "converted" /\ Val(payload).time_range # None
        /\ \A q \in Requests : IsMonthLevel(q[2]))
    => /\ HasReturned
       /\ \A q \in Requests :
             /\ HasDatetime(q[1])
             /\ Val(Val(Answer(q[1])).datetime)
                   = MonthBoundary(q[1], ResultingYear(q[2]), ResultingMonth(q[2]))

\* t names a year, absolutely or by an offset, and nothing else.
IsYearLevel(t) ==
    /\ ~Truthy(t.now)
    /\ AbsOf(t).year # None \/ RelOf(t).year # None
    /\ NoneOf(AbsOf(t), {"month", "day", "hour", "minute"})
    /\ NoneOf(RelOf(t), {"month", "day", "hour", "minute"})

\* C17: for every reference instant, February 29 included, a range endpoint
\* that names only a year resolves as start to January 1 00:00:00 and as end
\* to December 31 23:59:59 of the target year.
C17_YearSpan ==
    (pc = "converted" /\ Val(payload).time_range # None
        /\ \A q \in Requests : IsYearLevel(q[2]))
    => /\ HasReturned
       /\ \A q \in Requests :
             /\ HasDatetime(q[1])
             /\ Val(Val(Answer(q[1])).datetime)
                   = IF q[1] = "start" THEN IsoRef(ResultingYear(q[2]), 1, 1, 0, 0, 0)
                     ELSE IsoRef(ResultingYear(q[2]), 12, 31, 23, 59, 59)

(***************************************************************************)
(* Span expansion of range endpoints to a day, and endpoints with a time   *)
(* of day (C18, C19).                                                      *)
(***************************************************************************)

\* t names a day, absolutely or by a non-zero offset, and no hour or minute.
IsDayLevel(t) ==
    /\ ~Truthy(t.now)
    /\ \/ AbsOf(t).day # None
       \/ RelOf(t).day # None /\ Val(RelOf(t).day) # 0
    /\ HasNoTimeOfDay(t)

\* The instant t resolves to as a single-point spec against the reference.
AsSinglePoint(t) == compute_date_time(t, Reference)

\* C18: a range endpoint that names a day (an absolute day or a non-zero
\* relative day offset, with or without month and year fields) and no hour or
\* minute resolves to the computed day, at 00:00:00 as the start endpoint and
\* at 23:59:59 as the end endpoint, whatever the reference's time of day: the
\* day is the one the same spec resolves to as a single point, the day that
\* many days from the reference for an offset alone and the named day of the
\* named (else the reference's) month and year for absolute fields alone.
C18_DaySpan ==
    (pc = "converted" /\ Val(payload).time_range # None) =>
        \A q \in Requests :
            (IsDayLevel(q[2]) /\ HasDatetime(q[1])) =>
                /\ IF q[1] = "start" THEN IsStartOfDay(AnswerDT(q[1]))
                   ELSE IsEndOfDay(AnswerDT(q[1]))
                /\ AsSinglePoint(q[2]).exc = ""
                /\ SameDate(AnswerDT(q[1]),
                            FromIsoFormat(Val(Val(AsSinglePoint(q[2]).ret).datetime)))
                /\ (q[2].absolute = None /\ NoneOf(RelOf(q[2]), {"year", "month"}))
                      => SameDate(AnswerDT(q[1]),
                                  Walk(ReferenceInstant, Val(RelOf(q[2]).day)))
                /\ NoneOf(RelOf(q[2]), SpecFields)
                      => /\ AnswerDT(q[1]).year = ResultingYear(q[2])
                         /\ AnswerDT(q[1]).month = ResultingMonth(q[2])
                         /\ AnswerDT(q[1]).day = Val(AbsOf(q[2]).day)

\* A range from "relative day +1" to "relative day +1" was resolved against
\* 2023-12-31T23:59:30 to the whole of January 1, 2024.
C18_Witness ==
    /\ pc = "converted"
    /\ current_date_str = IsoRef(2023, 12, 31, 23, 59, 30)
    /\ Val(payload).time_range # None
    /\ \A q \in Requests :
          q[2] = TimeObj(None, Some(Fields(None, None, Some(1), None, None)), None)
    /\ HasDatetime("start") /\ HasDatetime("end")
    /\ Val(Val(Answer("start")).datetime) = IsoRef(2024, 1, 1, 0, 0, 0)
    /\ Val(Val(Answer("end")).datetime) = IsoRef(2024, 1, 1, 23, 59, 59)

\* t gives an hour or a minute, absolute or relative.
HasTimeOfDay(t) == ~HasNoTimeOfDay(t)

MinusNinetyMinutes == TimeObj(None, Some(Fields(None, None, None, None, Some(-90))), None)

\* C19: a range endpoint that gives an hour or a minute in its absolute or
\* its relative component is never span-expanded: as start and as end it
\* resolves to what the same spec resolves to as a single-point spec against
\* the same reference, and fails when that fails ("relative minute -90" alone
\* gives the instant 90 minutes before the reference in both roles, "absolute
\* hour 5" alone gives 05:00:00 of the reference date in both roles).
C19_TimeOfDayNotExpanded ==
    (pc = "converted" /\ Val(payload).time_range # None) =>
        \A q \in Requests :
            HasTimeOfDay(q[2]) =>
                /\ AsSinglePoint(q[2]).exc # "" => result.exc # ""
                /\ HasReturned =>
                      /\ AsSinglePoint(q[2]).exc = ""
                      /\ Answer(q[1]) = AsSinglePoint(q[2]).ret
                      /\ q[2] = MinusNinetyMinutes
                            => SameInstant(AnswerDT(q[1]), Later(ReferenceInstant, 0, -90))
                      /\ (q[2].absolute = Some(Fields(None, None, None, Some(5), None))
                          /\ NoneOf(RelOf(q[2]), SpecFields) /\ ~Truthy(q[2].now))
                            => Val(Val(Answer(q[1])).datetime)
                                  = IsoRef(Reference.year, Reference.month, Reference.day,
                                           5, 0, 0)

\* A range from "relative minute -90" to "relative minute -90" was resolved
\* against 2024-01-01T00:00:00: both endpoints are 2023-12-31T22:30:00.
C19_Witness ==
    /\ pc = "converted"
    /\ current_date_str = IsoRef(2024, 1, 1, 0, 0, 0)
    /\ Val(payload).time_range
          = Some([start_date |-> MinusNinetyMinutes, end_date |-> MinusNinetyMinutes])
    /\ HasReturned
    /\ Val(Val(Answer("start")).datetime) = IsoRef(2023, 12, 31, 22, 30, 0)
    /\ Val(Val(Answer("end")).datetime) = IsoRef(2023, 12, 31, 22, 30, 0)

(***************************************************************************)
(* The absolute time-of-day override (C20).                                *)
(***************************************************************************)

\* A component of hour h and minute mi, absent when neither is given.
HourMinute(h, mi) ==
    IF h = None /\ mi = None THEN None ELSE Some(Fields(None, None, None, h, mi))

\* Every combination of an absolute hour, an absolute minute, a relative
\* hour offset and a relative minute offset, each given or not.
TimeOfDaySpecs ==
    {TimeObj(HourMinute(x[1], x[2]), HourMinute(x[3], x[4]), None) :
        x \in Opt({0, 5, 23}) \X Opt({0, 45}) \X Opt({-1, 3}) \X Opt({-90, 15})}

TimeOfDayInputs == SingleAndRange(TimeOfDaySpecs)

NextTimeOfDay == Construct(TimeOfDayInputs) \/ Convert(Refs) \/ Return

SpecTimeOfDay == Init /\ [][NextTimeOfDay]_vars

\* C20: in a resolved spec an absolute hour without an absolute minute gives
\* that hour and minute 0; an absolute minute without an absolute hour gives
\* that minute and keeps the hour reached by the relative offsets; in both
\* cases the second is 0.  With neither, a relative hour or minute offset
\* gives the instant reached by elapsed-time addition, and the reference's
\* second is kept.
C20_TimeOfDayOverride ==
    pc = "converted" =>
        \A q \in Requests :
            (HasTimeOfDay(q[2]) /\ ~Truthy(q[2].now)) =>
                /\ HasDatetime(q[1])
                /\ (AbsOf(q[2]).hour # None /\ AbsOf(q[2]).minute = None)
                      => /\ AnswerDT(q[1]).hour = Val(AbsOf(q[2]).hour)
                         /\ AnswerDT(q[1]).minute = 0
                         /\ AnswerDT(q[1]).second = 0
                /\ (AbsOf(q[2]).hour = None /\ AbsOf(q[2]).minute # None)
                      => /\ AnswerDT(q[1]).minute = Val(AbsOf(q[2]).minute)
                         /\ AnswerDT(q[1]).hour = Elapsed(ReferenceInstant, q[2]).hour
                         /\ AnswerDT(q[1]).second = 0
                /\ (AbsOf(q[2]).hour = None /\ AbsOf(q[2]).minute = None)
                      => /\ SameInstant(AnswerDT(q[1]), Elapsed(ReferenceInstant, q[2]))
                         /\ AnswerDT(q[1]).second = ReferenceInstant.second

\* "Absolute minute 45, relative hour +3" was resolved as a single-point spec
\* against 2023-12-31T23:59:30 to 2024-01-01T02:45:00.
C20_Witness ==
    /\ pc = "converted"
    /\ current_date_str = IsoRef(2023, 12, 31, 23, 59, 30)
    /\ Val(payload).time_single
          = Some(TimeObj(HourMinute(None, Some(45)), HourMinute(Some(3), None), None))
    /\ HasDatetime("single")
    /\ Val(Val(Answer("single")).datetime) = IsoRef(2024, 1, 1, 2, 45, 0)

(***************************************************************************)
(* Partition, component building and payload assembly in the tool          *)
(* (C21, C22, C23, C24).                                                   *)
(***************************************************************************)

StartDay15 == Fragment(Some("absolute"), Some("start"), "day", 15)

EndFriday == Fragment(None, Some("end"), "friday", 2)

\* The fragments of FragmentChoices, a second value for the start's day and a
\* weekday in the end group.
FragmentPool == FragmentChoices \cup {StartDay15, EndFriday}

FragmentLists == UNION {[1..n -> FragmentPool] : n \in 0..MaxElements}

FragmentArguments ==
    {[parsable |-> Some(TRUE), reasoning |-> Some("reasoning"), time_elements |-> Some(l)] :
        l \in FragmentLists}

NextFragments == Run(FragmentArguments, ToolRefs) \/ Return

SpecFragments == Init /\ [][NextFragments]_vars

\* The payload run built holds a range, a single.
BuiltRange == payload # None /\ Val(payload).time_range # None

BuiltSingle == payload # None /\ Val(payload).time_single # None

\* C21: run builds a TimeRange exactly when, after inheritance, the start
\* group and the end group are both non-empty, and a TimeSingle exactly when
\* the start group is non-empty and the end group is empty; otherwise, a
\* non-empty end group with an empty start group included, neither is built.
C21_PayloadAssembly ==
    pc = "ran" =>
        /\ BuiltRange <=> (start_elements # << >> /\ end_elements # << >>)
        /\ BuiltSingle <=> (start_elements # << >> /\ end_elements = << >>)

\* The groups run folded, each with the time object built from it.
Built ==
    IF BuiltRange
    THEN {<<start_elements, Val(Val(payload).time_range).start_date>>,
          <<end_elements, Val(Val(payload).time_range).end_date>>}
    ELSE IF BuiltSingle THEN {<<start_elements, Val(Val(payload).time_single)>>}
    ELSE {}

Modes == {"absolute", "relative"}

\* The places of group g holding a fragment of mode m and unit u.
PlacesOf(g, m, u) == {i \in 1..Len(g) : g[i].mode = Some(m) /\ g[i].offset_unit = u}

\* The offset_value of the last fragment of mode m and unit u in g, if any.
LastValue(g, m, u) ==
    IF PlacesOf(g, m, u) = {} THEN None
    ELSE Some(g[CHOOSE i \in PlacesOf(g, m, u) : \A j \in PlacesOf(g, m, u) : j <= i].offset_value)

\* g holds a fragment of mode m that sets a field.
SetsField(g, m) == \E u \in SpecFields : PlacesOf(g, m, u) # {}

\* g holds a fragment of mode m whose unit is not a weekday.
HasMode(g, m) ==
    \E i \in 1..Len(g) : g[i].mode = Some(m) /\ g[i].offset_unit \notin (DateLevelUnits \ DATE_UNITS)

\* C22 as stated: the component of a mode is none exactly when the group
\* holds no fragment of that mode that sets a field; a returned component has
\* at least one field set, and each set field is the offset_value of the last
\* fragment of that mode and unit.
C22_Original ==
    pc = "ran" =>
        \A b \in Built : \A m \in Modes :
            /\ b[2][m] = None <=> ~SetsField(b[1], m)
            /\ b[2][m] # None =>
                  /\ AnySet(Val(b[2][m]))
                  /\ \A u \in SpecFields :
                        Val(b[2][m])[u] # None => Val(b[2][m])[u] = LastValue(b[1], m, u)

\* C22 (amended): the component of a mode is none exactly when the group
\* holds no non-weekday fragment of that mode; a returned component holds,
\* for each of year, month, day, hour, minute, the offset_value of the last
\* fragment of that mode and unit and nothing where there is none, so it has
\* every field unset when all fragments of its mode name a unit that is not
\* a field (second).
C22_ComponentBuilder ==
    pc = "ran" =>
        \A b \in Built : \A m \in Modes :
            /\ b[2][m] = None <=> ~HasMode(b[1], m)
            /\ b[2][m] # None =>
                  \A u \in SpecFields : Val(b[2][m])[u] = LastValue(b[1], m, u)

\* A range was built whose end group holds only a fragment of unit second:
\* its absolute component is present with every field unset.
C22_Witness ==
    /\ pc = "ran"
    /\ BuiltRange
    /\ end_elements = <<Fragment(Some("absolute"), Some("end"), "second", 30)>>
    /\ Val(Val(payload).time_range).end_date.absolute = Some(AbsoluteTime)
    /\ Val(Val(payload).time_range).end_date.relative = None

\* DatetimeParserTool.run(args) as a function of its arguments and of the
\* clock reading date_str: the structured content it returns.
run(args, date_str) ==
    IF ShortCircuits(args) THEN NotParsable(args)
    ELSE The({IF made.exc # "" THEN [exc |-> made.exc, ret |-> None]
              ELSE ResponseData(convert_datetime_payload(Val(made.ret), date_str)) :
                 made \in {The({BuildPayload(start_group,
                                    InheritDates(start_group,
                                        PartitionEnd(Val(args.time_elements)))) :
                                  start_group \in {PartitionStart(Val(args.time_elements))}})}})

IsWeekday(elem) == elem.offset_unit \in DateLevelUnits \ DATE_UNITS

WithoutWeekdays(elements) == SelectSeq(elements, LAMBDA e : ~IsWeekday(e))

HasWeekday(elements) == \E i \in 1..Len(elements) : IsWeekday(elements[i])

HasYearMonthDay(elements) == \E i \in 1..Len(elements) : elements[i].offset_unit \in DATE_UNITS

\* What the claim compares of a result: the exception if the call raised,
\* else the parsable flag and the single and range timestamps.
Compared(r) ==
    IF r.exc # "" \/ r.ret = None THEN <<r.exc>>
    ELSE <<Val(r.ret).parsable, Val(r.ret).time_single, Val(r.ret).time_range>>

\* The result of run for the request's list with its weekday fragments removed.
WeekdayFreeResult ==
    run([Val(arguments) EXCEPT !.time_elements = Some(WithoutWeekdays(TimeElements))],
        current_date_str)

\* C23 as stated: for every fragment list with parsable = true and every
\* reference, the result of run equals its result for the list with all
\* weekday fragments removed, provided that list is still non-empty.
C23_Original ==
    (pc = "ran" /\ WithoutWeekdays(TimeElements) # << >>)
        => Compared(result) = Compared(WeekdayFreeResult)

\* The weekday fragments of the end group are not its only fragments, and
\* not its only date-level fragments while the start group has a year, month
\* or day fragment.
EndWeekdaysInert ==
    HasWeekday(TaggedEnd) =>
        /\ WithoutWeekdays(TaggedEnd) # << >>
        /\ HasYearMonthDay(TaggedEnd) \/ ~HasYearMonthDay(TaggedStart)

\* C23 (amended): the result of run equals its result for the list with all
\* weekday fragments removed, provided that list is still non-empty and the
\* weekday fragments of the end group are neither its only fragments nor its
\* only date-level fragments while the start group holds a year, month or
\* day fragment.
C23_WeekdaysDropped ==
    (pc = "ran" /\ WithoutWeekdays(TimeElements) # << >> /\ EndWeekdaysInert)
        => Compared(result) = Compared(WeekdayFreeResult)

\* A range ran whose end group holds a weekday and a day: its end is the 31st
\* whatever the weekday.
C23_Witness ==
    /\ pc = "ran"
    /\ HasWeekday(TaggedEnd) /\ HasYearMonthDay(TaggedEnd)
    /\ HasWeekday(TaggedStart) /\ WithoutWeekdays(TaggedStart) = << >>
    /\ HasReturned /\ HasDatetime("end")
    /\ AnswerDT("end").day = 31

\* The group a fragment's tag names, and the number of fragments of that
\* group among the first i fragments of the request.
Side(elem) == IF elem.time_range = Some("end") THEN "end" ELSE "start"

RankIn(i) == Cardinality({j \in 1..i : Side(TimeElements[j]) = Side(TimeElements[i])})

CountOf(side) == Cardinality({j \in 1..Len(TimeElements) : Side(TimeElements[j]) = side})

\* C24: a fragment goes to the end group iff its tag is end (a missing tag
\* counts as start), each group keeps the input order, the start group is
\* never changed by inheritance, and when the end group already holds a
\* year, month, day or weekday fragment nothing is copied into it, even if
\* it lacks a month or a year that the start group has.
C24_PartitionAndDirection ==
    pc = "ran" =>
        /\ Len(start_elements) = CountOf("start")
        /\ Len(end_elements) >= CountOf("end")
        /\ \A i \in 1..Len(TimeElements) :
              IF Side(TimeElements[i]) = "end"
              THEN end_elements[RankIn(i)] = TimeElements[i]
              ELSE start_elements[RankIn(i)] = TimeElements[i]
        /\ \A i \in 1..Len(start_elements) : Side(start_elements[i]) = "start"
        /\ DateLevelOf(TaggedEnd) # << >> => Len(end_elements) = CountOf("end")

\* A request ran whose start group holds a month and a fragment without tag
\* and whose end group holds a day and no month: the end group is left as
\* it was tagged.
C24_Witness ==
    /\ pc = "ran"
    /\ \E i \in 1..Len(start_elements) : start_elements[i].offset_unit = "month"
    /\ \E i \in 1..Len(start_elements) : start_elements[i].time_range = None
    /\ end_elements = <<Fragment(Some("absolute"), Some("end"), "day", 31)>>

(***************************************************************************)
(* The parsable flag and the populated fields of a result (C25).           *)
(***************************************************************************)

\* C25: in every TimeConvertedPayload returned by convert_datetime_payload,
\* parsable = false implies that neither time_single nor time_range is
\* populated, and parsable = true implies that exactly one of them is.
C25_ParsableMatchesFields ==
    (pc = "converted" /\ HasReturned) =>
        /\ Output.parsable = FALSE
              => Output.time_single = None /\ Output.time_range = None
        /\ Output.parsable = TRUE
              => (Output.time_single = None) # (Output.time_range = None)

(***************************************************************************)
(* src/app/server_executor.py, src/app/server_agent.py: one run of         *)
(* DatetimeParserAgentExecutor.execute over the responses of               *)
(* AgentServer.process_query (C26).  The chunks of the completion are an   *)
(* input; execute handles each response before process_query goes on.      *)
(***************************************************************************)

MaxChunks == 3

\* A chunk of self.llm.chat_completion: its type and its data.
Chunk(type, data) == [type |-> type, data |-> data]

\* A requested call: arguments is None when json.loads cannot parse it.
FuncCall(args) == [name |-> "datetime_parser", arguments |-> args]

ArgsOf(time_elements) ==
    [parsable |-> Some(TRUE), reasoning |-> Some("reasoning"),
     time_elements |-> Some(time_elements)]

\* "July 30th", a call whose day no month has, and arguments that are not JSON.
CallJuly30 == FuncCall(Some(ArgsOf(<<StartMonth7, StartDay30>>)))

CallDay32 == FuncCall(Some(ArgsOf(<<Fragment(Some("absolute"), Some("start"), "day", 32)>>)))

CallNotJson == FuncCall(None)

ChunkChoices ==
    {Chunk("CONTENT", Some("text")), Chunk("CONTENT", Some("")),
     Chunk("FUNCTION_CALLING", None),
     Chunk("FUNCTION_CALLING", Some(<< >>)),
     Chunk("FUNCTION_CALLING", Some(<<CallJuly30>>)),
     Chunk("FUNCTION_CALLING", Some(<<CallDay32, CallNotJson>>)),
     Chunk("DONE", None)}

Streams == UNION {[1..n -> ChunkChoices] : n \in 0..MaxChunks}

\* context.current_task and context.message, each present or not.
Contexts == [current_task : BOOLEAN, message : BOOLEAN]

\* updater.update_status(state, ...) and updater.add_artifact(..., name=name)
StatusUpdate(state) == [kind |-> "status", state |-> state]

Artifact(name) == [kind |-> "artifact", name |-> name]

\* tool_args after json.loads: {} when the arguments are not JSON.
ToolArgs(func_call) ==
    IF func_call.arguments = None
    THEN [parsable |-> None, reasoning |-> None, time_elements |-> None]
    ELSE Val(func_call.arguments)

\* session.call_tool(tool_name, tool_args) with the tool's clock at date_str:
\* the structured content of the result, None when run raised.
call_tool(func_call, date_str) ==
    The({IF r.exc # "" THEN None ELSE r.ret : r \in {run(ToolArgs(func_call), date_str)}})

\* The events execute enqueues for a DATA response carrying one tool result.
OnData(structuredContent) ==
    <<IF structuredContent # None THEN Artifact("datetime_parser Data")
      ELSE Artifact("datetime_parser Response"),
      StatusUpdate("completed")>>

\* The events execute enqueues for a CONTENT response.
OnContent(data) ==
    IF data # None /\ Val(data) # ""
    THEN <<StatusUpdate("working"), Artifact("Text Response")>>
    ELSE << >>

\* execute up to its loop over process_query, and process_query up to its
\* loop over the completion; connected tells whether self.servers has a tool.
Execute ==
    /\ exec_pc = "idle"
    /\ \E context \in Contexts, connected \in BOOLEAN, stream \in Streams :
        IF ~context.current_task /\ ~context.message
        THEN /\ exec_pc' = "exited"
             /\ UNCHANGED <<task, chunks, function_calls, event_queue>>
        ELSE /\ task' = Some(IF context.current_task THEN "current" ELSE "new")
             /\ event_queue' = IF context.current_task THEN << >> ELSE <<[kind |-> "task"]>>
             /\ function_calls' = << >>
             /\ chunks' = IF connected THEN stream ELSE << >>
             /\ exec_pc' = IF connected THEN "completion" ELSE "exited"
    /\ UNCHANGED requestVars

\* One chunk of the completion: a CONTENT chunk is yielded and handled by
\* execute, a FUNCTION_CALLING chunk with a function list replaces
\* function_calls, a DONE chunk is yielded and ends the loop.
ProcessChunk ==
    /\ exec_pc = "completion"
    /\ chunks # << >>
    /\ \E response_chunk \in {Head(chunks)} :
        /\ event_queue' = IF response_chunk.type = "CONTENT"
                          THEN event_queue \o OnContent(response_chunk.data)
                          ELSE event_queue
        /\ function_calls' = IF /\ response_chunk.type = "FUNCTION_CALLING"
                                /\ response_chunk.data # None
                                /\ Val(response_chunk.data) # << >>
                             THEN Val(response_chunk.data)
                             ELSE function_calls
        /\ chunks' = IF response_chunk.type = "DONE" THEN << >> ELSE Tail(chunks)
        /\ exec_pc' = IF response_chunk.type = "DONE" THEN "tool_calls" ELSE "completion"
    /\ UNCHANGED <<task, requestVars>>

\* The completion ends without a DONE chunk.
EndOfCompletion ==
    /\ exec_pc = "completion"
    /\ chunks = << >>
    /\ exec_pc' = "tool_calls"
    /\ UNCHANGED <<task, chunks, function_calls, event_queue, requestVars>>

\* One requested call: the tool runs, its result is yielded as a DATA
\* response and execute handles it.
CallTool ==
    /\ exec_pc = "tool_calls"
    /\ function_calls # << >>
    /\ \E date_str \in ToolRefs :
        event_queue' = event_queue \o OnData(call_tool(Head(function_calls), date_str))
    /\ function_calls' = Tail(function_calls)
    /\ UNCHANGED <<exec_pc, task, chunks, requestVars>>

\* process_query has nothing more to yield: execute leaves its loop.
StreamExhausted ==
    /\ exec_pc = "tool_calls"
    /\ function_calls = << >>
    /\ exec_pc' = "exited"
    /\ UNCHANGED <<task, chunks, function_calls, event_queue, requestVars>>

\* The run is over; the next request gets its own task and event queue.
ExecuteExit ==
    /\ exec_pc = "exited"
    /\ exec_pc' = "idle"
    /\ task' = None
    /\ chunks' = << >>
    /\ function_calls' = << >>
    /\ event_queue' = << >>
    /\ UNCHANGED requestVars

NextExecutor ==
    Execute \/ ProcessChunk \/ EndOfCompletion \/ CallTool \/ StreamExhausted \/ ExecuteExit

SpecExecutor == Init /\ [][NextExecutor]_vars

\* The states passed to update_status during the run, in order.
StatusUpdates == SelectSeq(event_queue, LAMBDA e : e.kind = "status")

CompletedUpdates == {i \in 1..Len(StatusUpdates) : StatusUpdates[i].state = "completed"}

\* C26: for every run of execute on a task, once the response stream of
\* process_query is exhausted the task status has been set to completed
\* exactly once, and no status update follows it: so for a stream of CONTENT
\* and DONE responses only, a stream with no tool call and a stream with
\* several tool calls.
C26_CompletedOnce ==
    (exec_pc = "exited" /\ task # None) =>
        /\ Cardinality(CompletedUpdates) = 1
        /\ StatusUpdates[Len(StatusUpdates)].state = "completed"

====
